---- MODULE Spec2Model ----
(***************************************************************************)
(* Verification model of the AgentCore sample Lambdas:                     *)
(*   - the prompt-injection and SQL-injection gateway REQUEST interceptors *)
(*   - the CloudFormation custom-resource handler for Policy Engine/Policy *)
(*   - the MCP OAuth proxy (/authorize, /callback, /token)                 *)
(*   - the Cognito pre-token-generation trigger                            *)
(* Every Lambda invocation is stateless; each subsystem has its own        *)
(* specification over its own variables, the others stay idle.             *)
(***************************************************************************)
EXTENDS Integers, Sequences, FiniteSets, TLC

VARIABLES
    \* ---- gateway interceptors (prompt injection, SQL injection)
    event,            \* the Lambda event (a JSON value)
    GUARDRAIL_ID,     \* os.environ.get('GUARDRAIL_ID'); "" when unset
    handler,          \* which lambda_handler ran: "none", "prompt", "sql"
    result,           \* what lambda_handler returned, or the exception it let escape
    guardrailCalls,   \* the apply_guardrail calls made: <<[query, outcome]>>
    scanned,          \* how many strings were handed to detect_sql_injection
    \* ---- CloudFormation custom resource handler, PolicyGenerator
    cfn_event,        \* the custom-resource event
    cfn_pc,           \* where the invocation is: "start", a wait loop, "done"
    caller,           \* the function the running wait loop returns to
    elapsed,          \* time.time() - start_time of the running wait loop
    polls,            \* get_policy_engine / get_policy polls of that loop
    lastPoll,         \* what the last poll returned or raised
    timedOut,         \* the wait loop ran into its timeout
    apiCalls,         \* AgentCore control-plane calls made so far
    apiRaised,        \* the <<call, exception>> pairs that were raised
    responses,        \* the responses PUT to ResponseURL, in order
    waitRet,          \* what PolicyGenerator.wait_for_policy_engine_active returned
    \* ---- MCP OAuth proxy
    CLIENT_SECRET,    \* os.environ.get("CLIENT_SECRET", "")
    oa_pc,            \* "start", "authorized", "called back", "token"
    authorize_event,  \* the event of the /authorize invocation
    authorize_response,
    callback_event,   \* the event of the /callback invocation
    callback_response,
    token_event,      \* the event of the /token invocation
    token_request,    \* the POST handle_token made to Cognito
    token_response,
    \* ---- Cognito pre-token-generation trigger
    tok_input,        \* the event as the trigger was invoked with it
    tok_event,        \* the event object, which the trigger changes in place
    tok_pc,           \* "start", "done"
    tok_result,       \* what lambda_handler returned, or the exception it let escape
    tok_logged,       \* the except clause logged an error
    \* ---- Fine-Grained-Access-Control/setup-gateway.py
    config_file,      \* gateway_config.json as the script finds it
    sg_pc,            \* the statement setup_gateway() is at
    existing_config,  \* load_existing_config()'s result
    gateway,          \* the local variable gateway
    cognito_response, \* the local variable cognito_response
    sg_calls,         \* the API calls made, with what they returned or raised
    saved_config,     \* what the script wrote to gateway_config.json
    \* ---- MCP proxy, proxy_to_gateway
    GATEWAY_URL,      \* os.environ.get("GATEWAY_URL", "")
    GATEWAY_AUTH,     \* os.environ.get("GATEWAY_AUTH", None)
    px_pc,            \* "start", "done"
    proxy_event,      \* the event of the /mcp invocation
    urlopen_request,  \* the request urlopen was given
    urlopen_reply,    \* what urlopen did
    proxy_response    \* what proxy_to_gateway returned, or the exception it let escape

intVars == <<event, GUARDRAIL_ID, handler, result, guardrailCalls, scanned>>
cfnVars == <<cfn_event, cfn_pc, caller, elapsed, polls, lastPoll, timedOut,
             apiCalls, apiRaised, responses, waitRet>>

oaVars == <<CLIENT_SECRET, oa_pc, authorize_event, authorize_response,
            callback_event, callback_response, token_event, token_request,
            token_response>>
tokVars == <<tok_input, tok_event, tok_pc, tok_result, tok_logged>>
sgVars == <<config_file, sg_pc, existing_config, gateway, cognito_response,
            sg_calls, saved_config>>
pxVars == <<GATEWAY_URL, GATEWAY_AUTH, px_pc, proxy_event, urlopen_request,
            urlopen_reply, proxy_response>>

vars == <<intVars, cfnVars, oaVars, tokVars, sgVars, pxVars>>

(***************************************************************************)
(* JSON values.  A string is a sequence of one-character strings, a dict   *)
(* is the sequence of its <<key, value>> items in insertion order.         *)
(***************************************************************************)
Null == [t |-> "null"]
Str(s) == [t |-> "str", s |-> s]
Num(n) == [t |-> "num", n |-> n]
List(l) == [t |-> "list", l |-> l]
Dict(items) == [t |-> "dict", items |-> items]
EmptyDict == Dict(<<>>)

IsDict(v) == v.t = "dict"

HasKey(d, k) == \E i \in 1..Len(d.items) : d.items[i][1] = k

\* dict.get(k, default) on a dict
Get(d, k, default) ==
    IF HasKey(d, k)
    THEN d.items[CHOOSE i \in 1..Len(d.items) : d.items[i][1] = k][2]
    ELSE default

\* Python truthiness of a JSON value
Truthy(v) ==
    CASE v.t = "null" -> FALSE
      [] v.t = "str"  -> v.s # <<>>
      [] v.t = "num"  -> v.n # 0
      [] v.t = "list" -> v.l # <<>>
      [] v.t = "dict" -> v.items # <<>>

TOOLS_CALL == <<"t","o","o","l","s","/","c","a","l","l">>
TOOLS_LIST == <<"t","o","o","l","s","/","l","i","s","t">>
UNKNOWN_ID == <<"u","n","k","n","o","w","n">>

(***************************************************************************)
(* SQL-injection interceptor: text normalisation and pattern matching.     *)
(***************************************************************************)
STRICT_MODE == FALSE
MAX_STRING_LENGTH == 10000

UPPER == <<"A","B","C","D","E","F","G","H","I","J","K","L","M",
           "N","O","P","Q","R","S","T","U","V","W","X","Y","Z">>
LOWER == <<"a","b","c","d","e","f","g","h","i","j","k","l","m",
           "n","o","p","q","r","s","t","u","v","w","x","y","z">>
DIGITS == {"0","1","2","3","4","5","6","7","8","9"}

\* str.lower() on one character
Lower(c) == IF \E i \in 1..26 : UPPER[i] = c
            THEN LOWER[CHOOSE i \in 1..26 : UPPER[i] = c]
            ELSE c

\* the regex class \s (and [\s\n])
IsSpace(c) == c \in {" ", "\n", "\t", "\r", "\f"}

\* the regex class \w
IsWord(c) == \/ \E i \in 1..26 : UPPER[i] = c \/ LOWER[i] = c
             \/ c \in DIGITS
             \/ c = "_"

\* re.sub(r'\s+', ' ', s): every maximal run of whitespace becomes one space
RECURSIVE CollapseWhitespace(_)
CollapseWhitespace(s) ==
    IF Len(s) = 0 THEN s
    ELSE IF Len(s) = 1 THEN (IF IsSpace(s[1]) THEN <<" ">> ELSE s)
    ELSE LET m == Len(s) \div 2
             l == CollapseWhitespace(SubSeq(s, 1, m))
             r == CollapseWhitespace(SubSeq(s, m + 1, Len(s)))
         IN  IF l[Len(l)] = " " /\ r[1] = " " THEN l \o Tail(r) ELSE l \o r

normalize_string(s) ==
    LET normalized == CollapseWhitespace(s)
    IN  SubSeq([i \in 1..Len(normalized) |-> Lower(normalized[i])],
               1, Len(normalized))

\* regex elements: a literal character, an alternation of literal words,
\* a whitespace run [\s\n]* / [\s\n]+, the word boundary \b
Ch(c) == [k |-> "lit", c |-> c]
Alt(ws) == [k |-> "alt", alts |-> ws]
Ws(min) == [k |-> "ws", min |-> min]
B == [k |-> "b"]

\* \b at position i: exactly one of s[i-1], s[i] is a word character
WordBoundary(s, i) ==
    (i > 1 /\ IsWord(s[i - 1])) # (i <= Len(s) /\ IsWord(s[i]))

\* pat[k..] matches s from position i on (re.IGNORECASE)
RECURSIVE MatchAt(_, _, _, _)
MatchAt(pat, k, s, i) ==
    IF k > Len(pat) THEN TRUE
    ELSE LET e == pat[k] IN
      CASE e.k = "lit" ->
             /\ i <= Len(s)
             /\ Lower(s[i]) = Lower(e.c)
             /\ MatchAt(pat, k + 1, s, i + 1)
        [] e.k = "alt" ->
             \E w \in e.alts :
                /\ i + Len(w) - 1 <= Len(s)
                /\ \A j \in 1..Len(w) : Lower(s[i + j - 1]) = Lower(w[j])
                /\ MatchAt(pat, k + 1, s, i + Len(w))
        [] e.k = "ws" ->
             \E j \in i..(Len(s) + 1) :
                /\ j - i >= e.min
                /\ \A m \in i..(j - 1) : IsSpace(s[m])
                /\ MatchAt(pat, k + 1, s, j)
        [] e.k = "b" ->
             /\ WordBoundary(s, i)
             /\ MatchAt(pat, k + 1, s, i)

\* pattern.search(s)
Search(pat, s) == \E i \in 1..(Len(s) + 1) : MatchAt(pat, 1, s, i)

KW ==
    [ select |-> <<"S","E","L","E","C","T">>,
      insert |-> <<"I","N","S","E","R","T">>,
      update |-> <<"U","P","D","A","T","E">>,
      delete |-> <<"D","E","L","E","T","E">>,
      drop |-> <<"D","R","O","P">>,
      create |-> <<"C","R","E","A","T","E">>,
      alter |-> <<"A","L","T","E","R">>,
      truncate |-> <<"T","R","U","N","C","A","T","E">>,
      exec |-> <<"E","X","E","C">>,
      execute |-> <<"E","X","E","C","U","T","E">>,
      union |-> <<"U","N","I","O","N">>,
      all |-> <<"A","L","L">>,
      or |-> <<"O","R">>,
      and |-> <<"A","N","D">>,
      sleep |-> <<"S","L","E","E","P">>,
      waitfor |-> <<"W","A","I","T","F","O","R">>,
      delay |-> <<"D","E","L","A","Y">>,
      benchmark |-> <<"B","E","N","C","H","M","A","R","K">> ]

SQL_INJECTION_PATTERNS == <<
    [pat |-> <<Ch(";"), Ws(0), B,
               Alt({KW.select, KW.insert, KW.update, KW.delete, KW.drop, KW.create,
                    KW.alter, KW.truncate, KW.exec, KW.execute}), B>>,
     rule_id |-> "STACKED_QUERY"],
    [pat |-> <<Ch("-"), Ch("-")>>, rule_id |-> "SQL_COMMENT_DASH"],
    [pat |-> <<Ch("/"), Ch("*")>>, rule_id |-> "SQL_COMMENT_OPEN"],
    [pat |-> <<Ch("*"), Ch("/")>>, rule_id |-> "SQL_COMMENT_CLOSE"],
    [pat |-> <<B, Alt({KW.union}), B, Ws(1), B, Alt({KW.select}), B>>,
     rule_id |-> "UNION_SELECT"],
    [pat |-> <<B, Alt({KW.union}), B, Ws(1), B, Alt({KW.all}), B, Ws(1),
               B, Alt({KW.select}), B>>,
     rule_id |-> "UNION_ALL_SELECT"],
    [pat |-> <<B, Alt({KW.or}), B, Ws(1), Ch("1"), Ws(0), Ch("="), Ws(0), Ch("1")>>,
     rule_id |-> "TAUTOLOGY_OR"],
    [pat |-> <<B, Alt({KW.and}), B, Ws(1), Ch("1"), Ws(0), Ch("="), Ws(0), Ch("1")>>,
     rule_id |-> "TAUTOLOGY_AND"],
    [pat |-> <<B, Alt({KW.sleep}), B, Ws(0), Ch("(")>>, rule_id |-> "TIME_SLEEP"],
    [pat |-> <<B, Alt({KW.waitfor}), B, Ws(1), B, Alt({KW.delay}), B>>,
     rule_id |-> "TIME_WAITFOR"],
    [pat |-> <<B, Alt({KW.benchmark}), B, Ws(0), Ch("(")>>,
     rule_id |-> "TIME_BENCHMARK"] >>

\* detect_sql_injection(value): [mal, rule_id, category]
Clean == [mal |-> FALSE, rule_id |-> "", category |-> ""]

detect_sql_injection(value) ==
    IF value = <<>> THEN Clean
    ELSE IF Len(value) > MAX_STRING_LENGTH
    THEN [mal |-> TRUE, rule_id |-> "STRING_TOO_LONG", category |-> "INVALID_INPUT"]
    ELSE LET normalized == normalize_string(value)
             hits == {p \in 1..Len(SQL_INJECTION_PATTERNS) :
                         Search(SQL_INJECTION_PATTERNS[p].pat, normalized)}
         IN  IF hits = {} THEN Clean
             ELSE [mal |-> TRUE,
                   rule_id |-> SQL_INJECTION_PATTERNS[
                       CHOOSE p \in hits : \A q \in hits : p <= q].rule_id,
                   category |-> "SQL_INJECTION_DETECTED"]

\* extract_all_strings(obj): the string values of a JSON tree, in traversal
\* order (the field paths are only logged and are left out)
RECURSIVE extract_all_strings(_)
RECURSIVE ExtractFrom(_, _)
ExtractFrom(children, i) ==
    IF i > Len(children) THEN <<>>
    ELSE extract_all_strings(children[i]) \o ExtractFrom(children, i + 1)

extract_all_strings(obj) ==
    CASE obj.t = "dict" ->
           ExtractFrom([i \in 1..Len(obj.items) |-> obj.items[i][2]], 1)
      [] obj.t = "list" -> ExtractFrom(obj.l, 1)
      [] obj.t = "str" -> <<obj.s>>
      [] OTHER -> <<>>

\* an analysis whose loop returns after the first string, whatever it found
analyze_first_string_only(arguments) ==
    LET all_strings == extract_all_strings(arguments) IN
    IF all_strings = <<>> \/ ~detect_sql_injection(all_strings[1]).mal
    THEN [safe |-> TRUE, rule_id |-> "", category |-> "", scanned |-> all_strings]
    ELSE [safe |-> FALSE, rule_id |-> detect_sql_injection(all_strings[1]).rule_id,
          category |-> detect_sql_injection(all_strings[1]).category,
          scanned |-> SubSeq(all_strings, 1, 1)]

\* analyze_arguments_for_sql_injection(arguments):
\* [safe, rule_id, category, scanned]; the loop stops at the first hit
analyze_arguments_for_sql_injection(arguments) ==
    LET all_strings == extract_all_strings(arguments)
        bad == {i \in 1..Len(all_strings) : detect_sql_injection(all_strings[i]).mal}
    IN  IF bad = {}
        THEN [safe |-> TRUE, rule_id |-> "", category |-> "", scanned |-> all_strings]
        ELSE LET first == CHOOSE i \in bad : \A j \in bad : i <= j
                 d == detect_sql_injection(all_strings[first])
             IN  [safe |-> FALSE, rule_id |-> d.rule_id, category |-> d.category,
                  scanned |-> SubSeq(all_strings, 1, first)]

(***************************************************************************)
(* What a REQUEST interceptor hands back to the gateway.                   *)
(***************************************************************************)
\* a pass-through that forgets the incoming headers
PassThroughNoHeaders(headers, body) ==
    [kind |-> "transformedGatewayRequest", headers |-> EmptyDict, body |-> body]

\* {"mcp": {"transformedGatewayRequest": {"headers": ..., "body": ...}}}
PassThrough(headers, body) ==
    [kind |-> "transformedGatewayRequest", headers |-> headers, body |-> body]

\* create_blocked_response: {"mcp": {"transformedGatewayResponse": {403, ...}}}
create_blocked_response(security_policy, why, request_id) ==
    [kind |-> "transformedGatewayResponse", statusCode |-> 403,
     id |-> request_id, why |-> why, security_policy |-> security_policy]

\* the exception left lambda_handler
Raised(exc) == [kind |-> "raise", exc |-> exc]

NoResult == [kind |-> "none"]

(***************************************************************************)
(* Prompt-injection interceptor.                                           *)
(***************************************************************************)
\* What bedrock_runtime.apply_guardrail does when called: it raises, or it
\* returns a response that may or may not carry an 'action'.
GuardrailOutcomes ==
    {[raised |-> TRUE, response |-> <<>>]}
    \cup {[raised |-> FALSE, response |-> r] :
            r \in {<<>>, [action |-> "NONE"], [action |-> "GUARDRAIL_INTERVENED"],
                   [action |-> "BLOCKED"]}}

\* analyze_prompt_with_guardrails(user_query) under outcome o of the API call:
\* [is_safe, reason, calls]
analyze_prompt_with_guardrails(user_query, guardrail_id, o) ==
    IF guardrail_id = ""
    THEN [is_safe |-> FALSE, reason |-> "Guardrail not configured", calls |-> <<>>]
    ELSE LET \* a query that is not a string fails botocore's parameter validation
             eff == IF user_query.t = "str" THEN o
                    ELSE [raised |-> TRUE, response |-> <<>>]
             call == <<[query |-> user_query, outcome |-> eff]>>
         IN
         IF eff.raised
         THEN [is_safe |-> FALSE, reason |-> "Security analysis failed", calls |-> call]
         ELSE LET action == IF "action" \in DOMAIN eff.response
                            THEN eff.response.action ELSE "NONE"
              IN  IF action = "GUARDRAIL_INTERVENED"
                  THEN [is_safe |-> FALSE, reason |-> "Potential security threat detected",
                        calls |-> call]
                  ELSE IF action = "NONE"
                  THEN [is_safe |-> TRUE, reason |-> "Query passed security analysis",
                        calls |-> call]
                  ELSE [is_safe |-> FALSE, reason |-> "Unexpected security response",
                        calls |-> call]

\* the except block of lambda_handler once request_body is bound
\* (it reads request_body.get('id') and gateway_request.get('headers'))
PI_error_obj(request_body) ==
    IF IsDict(request_body)
    THEN create_blocked_response("prompt_injection_prevention", "Interceptor error",
                                 Get(request_body, "id", Str(UNKNOWN_ID)))
    ELSE Raised("AttributeError")

\* a handler that analyses whatever argument comes first
get_first_argument(arguments) ==
    IF arguments.items = <<>> THEN Str(<<>>) ELSE arguments.items[1][2]

\* user_query = arguments.get('query', '')
get_query(arguments) == Get(arguments, "query", Str(<<>>))

\* lambda_handler(event, context) of the prompt-injection interceptor:
\* [ret, calls]
PI_handle(ev, guardrail_id, o) ==
    LET unbound == [ret |-> Raised("UnboundLocalError"), calls |-> <<>>] IN
    IF ~IsDict(ev) THEN unbound
    ELSE LET mcp_data == Get(ev, "mcp", EmptyDict) IN
    IF ~IsDict(mcp_data) THEN unbound
    ELSE LET gateway_request == Get(mcp_data, "gatewayRequest", EmptyDict) IN
    IF ~IsDict(gateway_request) THEN unbound
    ELSE LET request_headers == Get(gateway_request, "headers", EmptyDict)
             request_body == Get(gateway_request, "body", EmptyDict)
             failed == [ret |-> PI_error_obj(request_body), calls |-> <<>>]
             passed == [ret |-> PassThrough(request_headers, request_body),
                        calls |-> <<>>]
         IN
    IF ~IsDict(request_body) THEN failed
    ELSE LET method == Get(request_body, "method", Str(<<>>))
             request_id == Get(request_body, "id", Str(UNKNOWN_ID))
         IN
    IF method # Str(TOOLS_CALL) THEN passed
    ELSE LET params == Get(request_body, "params", EmptyDict) IN
    IF ~IsDict(params) THEN failed
    ELSE LET arguments == Get(params, "arguments", EmptyDict) IN
    IF ~IsDict(arguments) THEN failed
    ELSE LET user_query == get_query(arguments) IN
    IF ~Truthy(user_query) THEN passed
    \* user_query[:200] before the try of analyze_prompt_with_guardrails
    ELSE IF user_query.t \notin {"str", "list"} THEN failed
    ELSE LET a == analyze_prompt_with_guardrails(user_query, guardrail_id, o) IN
         IF a.is_safe
         THEN [ret |-> PassThrough(request_headers, request_body), calls |-> a.calls]
         ELSE [ret |-> create_blocked_response("prompt_injection_prevention",
                                               a.reason, request_id),
               calls |-> a.calls]

(***************************************************************************)
(* SQL-injection interceptor.                                              *)
(***************************************************************************)
\* the except block of lambda_handler once request_body is bound
SQL_error_obj(request_body) ==
    IF IsDict(request_body)
    THEN create_blocked_response("sql_injection_prevention", "INTERCEPTOR_ERROR",
                                 Get(request_body, "id", Str(UNKNOWN_ID)))
    ELSE Raised("AttributeError")

\* lambda_handler(event, context) of the SQL-injection interceptor:
\* [ret, scanned]
SQL_handle(ev) ==
    LET unbound == [ret |-> Raised("UnboundLocalError"), scanned |-> 0] IN
    IF ~IsDict(ev) THEN unbound
    ELSE LET mcp_data == Get(ev, "mcp", EmptyDict) IN
    IF ~IsDict(mcp_data) THEN unbound
    ELSE LET gateway_request == Get(mcp_data, "gatewayRequest", EmptyDict) IN
    IF ~IsDict(gateway_request) THEN unbound
    ELSE LET request_body == Get(gateway_request, "body", EmptyDict)
             failed == [ret |-> SQL_error_obj(request_body), scanned |-> 0]
         IN
    IF ~IsDict(request_body) THEN failed
    ELSE LET method == Get(request_body, "method", Str(<<>>))
             request_id == Get(request_body, "id", Str(UNKNOWN_ID))
             passed == PassThrough(Get(gateway_request, "headers", EmptyDict),
                                   request_body)
         IN
    IF method # Str(TOOLS_CALL) THEN [ret |-> passed, scanned |-> 0]
    ELSE LET params == Get(request_body, "params", EmptyDict) IN
    IF ~IsDict(params) THEN failed
    ELSE LET arguments == Get(params, "arguments", EmptyDict) IN
    \* 'query' in arguments raises TypeError on None and on a number
    IF STRICT_MODE /\ arguments.t \in {"null", "num"} THEN failed
    ELSE IF /\ STRICT_MODE
            /\ \/ arguments.t = "dict"
                  /\ (HasKey(arguments, "query") \/ HasKey(arguments, "sql"))
               \/ arguments.t = "list"
                  /\ \E i \in 1..Len(arguments.l) :
                        arguments.l[i] \in {Str(<<"q","u","e","r","y">>),
                                            Str(<<"s","q","l">>)}
    THEN [ret |-> create_blocked_response("sql_injection_prevention",
                                          "RAW_SQL_NOT_ALLOWED", request_id),
          scanned |-> 0]
    ELSE LET a == analyze_arguments_for_sql_injection(arguments) IN
         IF a.safe
         THEN [ret |-> passed, scanned |-> Len(a.scanned)]
         ELSE [ret |-> create_blocked_response("sql_injection_prevention",
                                               a.category, request_id),
               scanned |-> Len(a.scanned)]

(***************************************************************************)
(* The events the interceptors are invoked with.                           *)
(***************************************************************************)
MaxNest == 2        \* how deep a string is nested in lists/dicts of arguments

Absent == [t |-> "absent"]                  \* "the key is not there"
Opt(k, v) == IF v = Absent THEN <<>> ELSE << <<k, v>> >>

LowerCase(w) == SubSeq([i \in 1..Len(w) |-> Lower(w[i])], 1, Len(w))
Repeat(c, n) == SubSeq([i \in 1..n |-> c], 1, n)

\* texts that hit, or narrowly miss, each of the patterns
Cores ==
    { <<>>, <<"o","k">>, LowerCase(KW.select),
      <<";", "\n", "\t">> \o KW.drop, <<";">> \o KW.exec, <<";">> \o LowerCase(KW.execute),
      <<"-","-">>, <<"-">>, <<"/","*">>, <<"*","/">>, <<"/"," ","*">>,
      KW.union \o <<" ">> \o KW.select,
      LowerCase(KW.union) \o <<"\n"," ">> \o LowerCase(KW.select),
      KW.union \o KW.select,
      KW.union \o <<" ">> \o KW.all \o <<"\r","\n">> \o KW.select,
      KW.union \o <<" ">> \o KW.all,
      KW.or \o <<" ","1","=","1">>, LowerCase(KW.or) \o <<"\n","1"," ","=","\t","1">>,
      KW.or \o <<"1","=","1">>, KW.or \o <<" ","1","=","2">>,
      KW.and \o <<"\t","1","=","1">>,
      KW.sleep \o <<"(">>, LowerCase(KW.sleep) \o <<" "," ","(">>, KW.sleep,
      KW.waitfor \o <<" ">> \o KW.delay, KW.waitfor \o KW.delay,
      KW.benchmark \o <<"(">> }

Texts ==
    {pre \o core \o post : pre \in {<<>>, <<"x">>}, core \in Cores,
                           post \in {<<>>, <<"y">>}}
    \cup {Repeat("a", MAX_STRING_LENGTH), Repeat("a", MAX_STRING_LENGTH + 1)}

\* a value wrapped in up to n levels of lists and dicts
RECURSIVE Nest(_, _)
Nest(v, n) ==
    IF n = 0 THEN {v}
    ELSE LET inner == Nest(v, n - 1) IN
         inner \cup {List(<<Num(1), w>>) : w \in inner}
               \cup {Dict(<< <<"query", w>>, <<"limit", Num(0)>> >>) : w \in inner}

Arguments ==
    UNION {Nest(Str(s), MaxNest) : s \in Texts}
    \cup {Dict(<< <<"a", Str(s1)>>, <<"query", Str(s2)>> >>) :
            s1, s2 \in {<<"o","k">>, <<"-","-">>, Repeat("a", MAX_STRING_LENGTH + 1)}}
    \cup {Absent, Null, Num(5), EmptyDict, List(<<>>),
          Dict(<< <<"query", Null>> >>), Dict(<< <<"query", Num(0)>> >>),
          Dict(<< <<"query", Num(7)>> >>),
          Dict(<< <<"note", Str(<<"-","-">>)>> >>)}

\* event["mcp"]["gatewayRequest"] with its headers and its JSON-RPC body
Events ==
    LET Body(method, id, params) ==
          Dict(Opt("method", method) \o Opt("id", id) \o Opt("params", params))
        Params(arguments) ==
          Dict(<< <<"name", Str(<<"t","o","o","l">>)>> >> \o Opt("arguments", arguments))
        Request(headers, body) ==
          Dict(<< <<"mcp", Dict(<< <<"gatewayRequest",
                      Dict(Opt("headers", headers) \o Opt("body", body))>> >>)>> >>)
        Headers == Dict(<< <<"Authorization", Str(<<"B","e","a","r","e","r">>)>> >>)
    IN
    {Null, EmptyDict, Dict(<< <<"mcp", Null>> >>), Dict(<< <<"mcp", EmptyDict>> >>),
     Dict(<< <<"mcp", Dict(<< <<"gatewayRequest", Null>> >>)>> >>),
     Request(Headers, Absent), Request(Headers, Null), Request(Absent, Str(<<"x">>))}
    \cup {Request(h, Body(m, i, p)) :
            h \in {Absent, Null, Headers}, i \in {Absent, Num(1)},
            m \in {Absent, Str(TOOLS_LIST), Str(TOOLS_CALL), Num(5)},
            p \in {Absent, Null, List(<<>>), Params(Absent)}}
    \cup {Request(Headers, Body(m, Num(1), Params(a))) :
            m \in {Str(TOOLS_LIST), Str(TOOLS_CALL)}, a \in Arguments}

(***************************************************************************)
(* Interceptor invocations.                                                *)
(***************************************************************************)
IntStart ==
    /\ event \in Events
    /\ GUARDRAIL_ID \in {"", "gr-1"}
    /\ handler = "none"
    /\ result = NoResult
    /\ guardrailCalls = <<>>
    /\ scanned = 0

\* one invocation of the prompt-injection lambda_handler
PI_lambda_handler ==
    /\ handler = "none"
    /\ \E o \in GuardrailOutcomes :
          LET r == PI_handle(event, GUARDRAIL_ID, o) IN
          /\ result' = r.ret
          /\ guardrailCalls' = r.calls
    /\ handler' = "prompt"
    /\ UNCHANGED <<event, GUARDRAIL_ID, scanned>>
    /\ UNCHANGED <<cfnVars, oaVars, tokVars, sgVars, pxVars>>

\* one invocation of the SQL-injection lambda_handler
SQL_lambda_handler ==
    /\ handler = "none"
    /\ LET r == SQL_handle(event) IN
          /\ result' = r.ret
          /\ scanned' = r.scanned
    /\ handler' = "sql"
    /\ UNCHANGED <<event, GUARDRAIL_ID, guardrailCalls>>
    /\ UNCHANGED <<cfnVars, oaVars, tokVars, sgVars, pxVars>>

\* no interceptor is invoked
IntIdle ==
    /\ event = Null
    /\ GUARDRAIL_ID = ""
    /\ handler = "idle"
    /\ result = NoResult
    /\ guardrailCalls = <<>>
    /\ scanned = 0

IntNext == PI_lambda_handler \/ SQL_lambda_handler

(***************************************************************************)
(* Properties of the interceptors.                                         *)
(***************************************************************************)
\* the envelope of the event is well formed down to a request body object
HasBody(ev) ==
    /\ IsDict(ev)
    /\ IsDict(Get(ev, "mcp", EmptyDict))
    /\ IsDict(Get(Get(ev, "mcp", EmptyDict), "gatewayRequest", EmptyDict))
    /\ HasKey(Get(Get(ev, "mcp", EmptyDict), "gatewayRequest", EmptyDict), "body")
    /\ IsDict(Get(Get(Get(ev, "mcp", EmptyDict), "gatewayRequest", EmptyDict),
                  "body", Null))

GatewayRequestOf(ev) == Get(Get(ev, "mcp", EmptyDict), "gatewayRequest", EmptyDict)
BodyOf(ev) == Get(GatewayRequestOf(ev), "body", EmptyDict)

IsToolsCall(ev) == HasBody(ev) /\ Get(BodyOf(ev), "method", Null) = Str(TOOLS_CALL)

\* a tools/call whose params is an object (or left out)
HasArguments(ev) == IsToolsCall(ev) /\ IsDict(Get(BodyOf(ev), "params", EmptyDict))
ArgumentsOf(ev) == Get(Get(BodyOf(ev), "params", EmptyDict), "arguments", EmptyDict)

\* a tools/call whose params.arguments.query is a non-empty value
HasQuery(ev) ==
    /\ HasArguments(ev)
    /\ IsDict(ArgumentsOf(ev))
    /\ Truthy(Get(ArgumentsOf(ev), "query", Null))

IsPassThrough == result.kind = "transformedGatewayRequest"
IsBlocked == result.kind = "transformedGatewayResponse" /\ result.statusCode = 403

\* the one apply_guardrail call returned, and its response says action NONE
GuardrailSaidNone ==
    /\ GUARDRAIL_ID # ""
    /\ Len(guardrailCalls) = 1
    /\ ~guardrailCalls[1].outcome.raised
    /\ "action" \in DOMAIN guardrailCalls[1].outcome.response
    /\ guardrailCalls[1].outcome.response.action = "NONE"

\* C1: the prompt-injection interceptor fails closed: a tools/call with a
\* non-empty query is passed through only if GUARDRAIL_ID is configured and
\* apply_guardrail returned action 'NONE'; in every other case the answer is
\* a 403 transformedGatewayResponse.
C1_FailsClosed ==
    (handler = "prompt" /\ HasQuery(event)) =>
        IF GuardrailSaidNone THEN IsPassThrough ELSE IsBlocked

\* C2: in both interceptors lambda_handler never lets an exception escape
\* and never passes a request through after an internal error: whatever the
\* shape of the event, an error ends in a 403 blocked response.
C2_NeverPropagates ==
    handler # "none" => result.kind # "raise"

\* the string values reachable in a JSON value through dicts and lists
RECURSIVE StringsIn(_)
StringsIn(v) ==
    CASE v.t = "str" -> {v.s}
      [] v.t = "list" -> UNION {StringsIn(v.l[i]) : i \in 1..Len(v.l)}
      [] v.t = "dict" -> UNION {StringsIn(v.items[i][2]) : i \in 1..Len(v.items)}
      [] OTHER -> {}

\* too long, or one of SQL_INJECTION_PATTERNS matches the normalised text
Offending(s) ==
    \/ Len(s) > MAX_STRING_LENGTH
    \/ \E p \in 1..Len(SQL_INJECTION_PATTERNS) :
          Search(SQL_INJECTION_PATTERNS[p].pat, normalize_string(s))

C4_OtherMethodsUntouched ==
    (handler # "none" /\ HasBody(event) /\ ~IsToolsCall(event)) =>
        /\ result.kind = "transformedGatewayRequest"
        /\ result.body = BodyOf(event)
        /\ result.headers = IF HasKey(GatewayRequestOf(event), "headers")
                            THEN Get(GatewayRequestOf(event), "headers", Null)
                            ELSE EmptyDict
        /\ guardrailCalls = <<>>
        /\ scanned = 0

\* C4 witness: a tools/list request that carries headers and an injection
\* text in its arguments went through the prompt interceptor untouched
C4_Witness ==
    /\ handler = "prompt"
    /\ GUARDRAIL_ID # ""
    /\ HasBody(event)
    /\ Get(BodyOf(event), "method", Null) = Str(TOOLS_LIST)
    /\ HasKey(GatewayRequestOf(event), "headers")
    /\ IsDict(Get(BodyOf(event), "params", Null))
    /\ \E s \in StringsIn(Get(BodyOf(event), "params", Null)) : Offending(s)
    /\ IsPassThrough

(***************************************************************************)
(* CloudFormation custom-resource handler (agentcore_policy_engine.py) and *)
(* PolicyGenerator.wait_for_policy_engine_active (policy_generator.py).    *)
(***************************************************************************)
MAX_WAIT_TIME == 300      \* max_wait_time: int = 300
POLL_SLEEP == 10          \* time.sleep(10)
GEN_TIMEOUT == 300        \* timeout: int = 300
GEN_SLEEP == 5            \* time.sleep(5)
MaxApiLatency == 4        \* the longest a control-plane call takes, in seconds

ApiLatencies == {0, MaxApiLatency}

MISSING == "<missing>"    \* the key is not in the event / the properties

\* the custom-resource events: RequestType, ResourceProperties.ResourceType,
\* PhysicalResourceId and the properties the handlers read
CfnEvent(rq, rt, pid, eng, name, stmt) ==
    [RequestType |-> rq, ResourceType |-> rt, PhysicalResourceId |-> pid,
     PolicyEngineId |-> eng, PolicyName |-> name, PolicyStatement |-> stmt,
     \* OldResourceProperties.PolicyStatement, ResourceProperties.GatewayId
     OldPolicyStatement |-> MISSING, GatewayId |-> MISSING,
     \* "complete": StackId, RequestId, LogicalResourceId and ResponseURL are there
     Envelope |-> "complete"]

CfnEvents ==
    {CfnEvent("Create", rt, pid, MISSING, MISSING, MISSING) :
        rt \in {MISSING, "PolicyEngine"}, pid \in {MISSING, "pe-1"}}
    \cup {CfnEvent("Delete", rt, pid, MISSING, MISSING, MISSING) :
        rt \in {MISSING, "PolicyEngine"}, pid \in {MISSING, "", "pe-1"}}
    \cup {CfnEvent("Create", "Policy", MISSING, eng, name, stmt) :
        eng \in {MISSING, "", "pe-1"}, name \in {MISSING, "allow"},
        stmt \in {MISSING, "permit"}}
    \cup {CfnEvent("Delete", "Policy", pid, eng, "allow", "permit") :
        pid \in {MISSING, "", "pol-1"}, eng \in {MISSING, "", "pe-1"}}
    \cup {CfnEvent("Update", "PolicyEngine", pid, MISSING, MISSING, MISSING) :
        pid \in {MISSING, "pe-1"}}
    \cup UNION {
         {[CfnEvent("Update", "Policy", "pol-1", "pe-1", "allow", stmt)
             EXCEPT !.OldPolicyStatement = old, !.Envelope = env] :
            stmt \in {MISSING, "permit"}, old \in {MISSING, "permit", "forbid"}}
         \cup {[CfnEvent(rq, "PolicyEngineGatewayAssociation", MISSING, eng, MISSING, MISSING)
                  EXCEPT !.GatewayId = gw, !.Envelope = env] :
                 rq \in {"Create", "Update", "Delete", "Replace"},
                 eng \in {MISSING, "pe-1"}, gw \in {MISSING, "", "gw-1"}}
         \cup {[CfnEvent(rq, rt, MISSING, MISSING, MISSING, MISSING)
                  EXCEPT !.Envelope = env] :
                 rq \in {"Create", "Replace"}, rt \in {"Gateway"}}
         \cup {[CfnEvent("Replace", rt, MISSING, MISSING, MISSING, MISSING)
                  EXCEPT !.Envelope = env] :
                 rt \in {"Policy", "PolicyEngine"}}
        : env \in {"complete", "no StackId", "no ResponseURL"} }

\* the PolicyGenerator script waiting for the engine it created
GeneratorRun == CfnEvent("n/a", "policy_generator", MISSING, "pe-1", MISSING, MISSING)

\* dict.get(key, "") on the event or its properties
OrEmpty(v) == IF v = MISSING THEN "" ELSE v

\* event.get("PhysicalResourceId", "unknown")
OrUnknown(v) == IF v = MISSING THEN "unknown" ELSE v

\* resource_properties.get("ResourceType", "PolicyEngine")
ResourceTypeOf(ev) ==
    IF ev.ResourceType = MISSING THEN "PolicyEngine" ELSE ev.ResourceType

\* what a poll can come back with: a status, a response without 'status',
\* ResourceNotFoundException, or another exception
PollResults == {"CREATING", "ACTIVE", "FAILED", "DELETING", "CREATE_FAILED",
                "UPDATE_FAILED", MISSING, "ResourceNotFoundException", "Exception"}

IsException(r) == r \in {"ResourceNotFoundException", "Exception"}

\* send_response(event, status, reason, response_data, physical_resource_id):
\* the body PUT to event["ResponseURL"]; delivered is FALSE when
\* http.request raised (the exception is logged and swallowed)
send_response(ev, status, reason, physical_resource_id, delivered) ==
    [Status |-> status,
     Reason |-> reason,
     PhysicalResourceId |->
        IF physical_resource_id # "" THEN physical_resource_id
        ELSE IF ev.PhysicalResourceId # MISSING THEN ev.PhysicalResourceId
        ELSE "failed-<time>",
     delivered |-> delivered]

\* the handler sends its response and returns.  Without StackId, RequestId
\* or LogicalResourceId send_response raises KeyError before the PUT, in
\* every except clause too, and the exception leaves lambda_handler; without
\* ResponseURL the KeyError is logged in send_response and nothing is PUT.
Respond(status, reason, physical_resource_id) ==
    /\ IF cfn_event.Envelope = "complete"
       THEN \E delivered \in BOOLEAN :
              responses' = Append(responses,
                                  send_response(cfn_event, status, reason,
                                                physical_resource_id, delivered))
       ELSE UNCHANGED responses
    /\ cfn_pc' = "done"

\* a delete handler that reports its errors like the create handlers do
DeleteErrorStatusFailed == "FAILED"

\* the status a delete handler reports from its except block
\* ("Don't fail on delete to avoid blocking stack deletion")
DeleteErrorStatus == "SUCCESS"

\* a wait that also takes a resource that is still being created as ready
IsActiveOrCreating(status) == status \in {"ACTIVE", "CREATING"}

\* status == "ACTIVE" ends a wait_for_*_active loop
IsActive(status) == status = "ACTIVE"

\* a loop condition that is off by one: <= instead of <
InTimeInclusive(t, max_wait_time) == t <= max_wait_time

\* the loop condition: time.time() - start_time < max_wait_time
InTime(t, max_wait_time) == t < max_wait_time

CfnStart ==
    /\ cfn_event \in CfnEvents \cup {GeneratorRun}
    /\ cfn_pc = IF cfn_event = GeneratorRun THEN "gen_wait" ELSE "start"
    /\ caller = "none"
    /\ elapsed = 0
    /\ polls = 0
    /\ lastPoll = "none"
    /\ timedOut = FALSE
    /\ apiCalls = 0
    /\ apiRaised = {}
    /\ responses = <<>>
    /\ waitRet = "none"

CfnIdle ==
    /\ cfn_event = GeneratorRun
    /\ cfn_pc = "idle"
    /\ caller = "none"
    /\ elapsed = 0
    /\ polls = 0
    /\ lastPoll = "none"
    /\ timedOut = FALSE
    /\ apiCalls = 0
    /\ apiRaised = {}
    /\ responses = <<>>
    /\ waitRet = "none"

\* enter a wait loop: start_time = time.time()
EnterWait(loop, from) ==
    /\ cfn_pc' = loop
    /\ caller' = from
    /\ elapsed' = 0
    /\ polls' = 0
    /\ UNCHANGED <<lastPoll, timedOut, responses>>

Dispatched(rq, rt) ==
    /\ cfn_pc = "start"
    /\ cfn_event.RequestType = rq
    /\ ResourceTypeOf(cfn_event) = rt

\* create_policy_engine(event, properties) up to its wait
create_policy_engine ==
    /\ Dispatched("Create", "PolicyEngine")
    /\ apiCalls' = apiCalls + 1
    /\ \E ok \in BOOLEAN :
          IF ok
          THEN /\ EnterWait("wait_for_policy_engine_active", "create_policy_engine")
               /\ UNCHANGED apiRaised
          ELSE /\ apiRaised' = apiRaised \cup {<<"create_policy_engine", "Exception">>}
               /\ Respond("FAILED", "str(e)", "")
               /\ UNCHANGED <<caller, elapsed, polls, lastPoll, timedOut>>
    /\ UNCHANGED <<cfn_event, waitRet>>
    /\ UNCHANGED <<intVars, oaVars, tokVars, sgVars, pxVars>>

\* delete_policy_engine(event, properties) up to its wait
delete_policy_engine ==
    /\ Dispatched("Delete", "PolicyEngine")
    /\ IF OrEmpty(cfn_event.PhysicalResourceId) # ""
       THEN /\ apiCalls' = apiCalls + 1
            /\ \E ok \in BOOLEAN :
                  IF ok
                  THEN /\ EnterWait("wait_for_policy_engine_deleted",
                                    "delete_policy_engine")
                       /\ UNCHANGED apiRaised
                  ELSE /\ apiRaised' = apiRaised
                                       \cup {<<"delete_policy_engine", "Exception">>}
                       /\ Respond(DeleteErrorStatus, "Delete completed with warnings",
                               OrUnknown(cfn_event.PhysicalResourceId))
                       /\ UNCHANGED <<caller, elapsed, polls, lastPoll, timedOut>>
       ELSE /\ Respond("SUCCESS", "deleted successfully",
                    OrEmpty(cfn_event.PhysicalResourceId))
            /\ UNCHANGED <<caller, elapsed, polls, lastPoll, timedOut,
                           apiCalls, apiRaised>>
    /\ UNCHANGED <<cfn_event, waitRet>>
    /\ UNCHANGED <<intVars, oaVars, tokVars, sgVars, pxVars>>

\* create_policy(event, properties) up to its wait
create_policy ==
    /\ Dispatched("Create", "Policy")
    /\ IF \/ OrEmpty(cfn_event.PolicyEngineId) = ""
          \/ OrEmpty(cfn_event.PolicyName) = ""
          \/ OrEmpty(cfn_event.PolicyStatement) = ""
       THEN \* raise ValueError("... is required")
            /\ Respond("FAILED", "str(e)", "")
            /\ UNCHANGED <<caller, elapsed, polls, lastPoll, timedOut,
                           apiCalls, apiRaised>>
       ELSE /\ apiCalls' = apiCalls + 1
            /\ \E ok \in BOOLEAN :
                  IF ok
                  THEN /\ EnterWait("wait_for_policy_active", "create_policy")
                       /\ UNCHANGED apiRaised
                  ELSE /\ apiRaised' = apiRaised \cup {<<"create_policy", "Exception">>}
                       /\ Respond("FAILED", "str(e)", "")
                       /\ UNCHANGED <<caller, elapsed, polls, lastPoll, timedOut>>
    /\ UNCHANGED <<cfn_event, waitRet>>
    /\ UNCHANGED <<intVars, oaVars, tokVars, sgVars, pxVars>>

\* delete_policy(event, properties) up to its wait
delete_policy ==
    /\ Dispatched("Delete", "Policy")
    /\ IF /\ OrEmpty(cfn_event.PhysicalResourceId) # ""
          /\ OrEmpty(cfn_event.PolicyEngineId) # ""
       THEN /\ apiCalls' = apiCalls + 1
            /\ \E ok \in BOOLEAN :
                  IF ok
                  THEN /\ EnterWait("wait_for_policy_deleted", "delete_policy")
                       /\ UNCHANGED apiRaised
                  ELSE /\ apiRaised' = apiRaised \cup {<<"delete_policy", "Exception">>}
                       /\ Respond(DeleteErrorStatus, "Delete completed with warnings",
                               OrUnknown(cfn_event.PhysicalResourceId))
                       /\ UNCHANGED <<caller, elapsed, polls, lastPoll, timedOut>>
       ELSE /\ Respond("SUCCESS", "deleted successfully",
                    OrEmpty(cfn_event.PhysicalResourceId))
            /\ UNCHANGED <<caller, elapsed, polls, lastPoll, timedOut,
                           apiCalls, apiRaised>>
    /\ UNCHANGED <<cfn_event, waitRet>>
    /\ UNCHANGED <<intVars, oaVars, tokVars, sgVars, pxVars>>

\* except client.exceptions.ResourceNotFoundException: what the first
\* get_policy_engine must raise for the engine to be created anew
RecreateOnAny(got) == got # "found"

RecreateOn(got) == got = "ResourceNotFoundException"

\* update_policy_engine(event, properties) up to its wait: the engine is
\* looked up; when it is not found a new one is created, otherwise it is
\* updated
update_policy_engine ==
    /\ Dispatched("Update", "PolicyEngine")
    /\ \E got \in {"found", "ResourceNotFoundException", "Exception"},
          then \in {"ok", "ResourceNotFoundException", "Exception"} :
          LET first == IF got = "found" THEN {}
                       ELSE {<<"update_policy_engine: get_policy_engine", got>>}
              next == IF got = "found" THEN "update_policy_engine"
                                       ELSE "create_policy_engine"
          IN
          IF got # "found" /\ ~RecreateOn(got)
          THEN /\ then = "ok"
               /\ apiCalls' = apiCalls + 1
               /\ apiRaised' = apiRaised \cup first
               /\ Respond("FAILED", "str(e)", "")
               /\ UNCHANGED <<caller, elapsed, polls, lastPoll, timedOut>>
          ELSE /\ apiCalls' = apiCalls + 2
               /\ IF then = "ok"
                  THEN /\ apiRaised' = apiRaised \cup first
                       /\ EnterWait("wait_for_policy_engine_active",
                                    IF got = "found" THEN "update_policy_engine"
                                    ELSE "update_policy_engine: recreate")
                  ELSE /\ apiRaised' = apiRaised \cup first \cup {<<next, then>>}
                       /\ Respond("FAILED", "str(e)", "")
                       /\ UNCHANGED <<caller, elapsed, polls, lastPoll, timedOut>>
    /\ UNCHANGED <<cfn_event, waitRet>>
    /\ UNCHANGED <<intVars, oaVars, tokVars, sgVars, pxVars>>

\* update_policy(event, properties): update_policy is called when the
\* statement differs from the old one
update_policy ==
    /\ Dispatched("Update", "Policy")
    /\ IF cfn_event.PolicyStatement # OrEmpty(cfn_event.OldPolicyStatement)
       THEN /\ apiCalls' = apiCalls + 1
            /\ \E ok \in BOOLEAN :
                  IF ok
                  THEN /\ Respond("SUCCESS", "Policy updated successfully",
                                  OrEmpty(cfn_event.PhysicalResourceId))
                       /\ UNCHANGED apiRaised
                  ELSE /\ apiRaised' = apiRaised \cup {<<"update_policy", "Exception">>}
                       /\ Respond("FAILED", "str(e)", "")
       ELSE /\ Respond("SUCCESS", "Policy updated successfully",
                       OrEmpty(cfn_event.PhysicalResourceId))
            /\ UNCHANGED <<apiCalls, apiRaised>>
    /\ UNCHANGED <<cfn_event, waitRet, caller, elapsed, polls, lastPoll, timedOut>>
    /\ UNCHANGED <<intVars, oaVars, tokVars, sgVars, pxVars>>

\* f"{properties.get('PolicyEngineId')}-association"
AssociationId(ev) ==
    CASE ev.PolicyEngineId = MISSING -> "None-association"
      [] ev.PolicyEngineId = "" -> "-association"
      [] ev.PolicyEngineId = "pe-1" -> "pe-1-association"

\* handle_policy_engine_gateway_association(event, request_type, properties)
handle_policy_engine_gateway_association ==
    /\ cfn_pc = "start"
    /\ ResourceTypeOf(cfn_event) = "PolicyEngineGatewayAssociation"
    /\ cfn_event.RequestType \in {"Create", "Update", "Delete"}
    /\ IF cfn_event.RequestType # "Delete" /\ OrEmpty(cfn_event.GatewayId) # ""
       THEN \E failing \in {"none", "get_gateway", "update_gateway"} :
              /\ apiCalls' = apiCalls + (IF failing = "get_gateway" THEN 1 ELSE 2)
              /\ IF failing = "none"
                 THEN /\ Respond("SUCCESS", "associated", AssociationId(cfn_event))
                      /\ UNCHANGED apiRaised
                 ELSE /\ apiRaised' = apiRaised \cup {<<failing, "Exception">>}
                      /\ Respond("FAILED", "Error associating", "")
       ELSE /\ Respond("SUCCESS", "associated or deleted", AssociationId(cfn_event))
            /\ UNCHANGED <<apiCalls, apiRaised>>
    /\ UNCHANGED <<cfn_event, waitRet, caller, elapsed, polls, lastPoll, timedOut>>
    /\ UNCHANGED <<intVars, oaVars, tokVars, sgVars, pxVars>>

\* a handler whose except clause lets the ValueError go unanswered
unknown_request_unanswered ==
    /\ cfn_pc = "start"
    /\ \/ ResourceTypeOf(cfn_event)
            \notin {"PolicyEngine", "Policy", "PolicyEngineGatewayAssociation"}
       \/ cfn_event.RequestType \notin {"Create", "Update", "Delete"}
    /\ cfn_pc' = "done"
    /\ UNCHANGED <<cfn_event, waitRet, caller, elapsed, polls, lastPoll, timedOut,
                   apiCalls, apiRaised, responses>>
    /\ UNCHANGED <<intVars, oaVars, tokVars, sgVars, pxVars>>

\* raise ValueError("Unknown resource type / request type"), answered by the
\* except clause of lambda_handler
unknown_request ==
    /\ cfn_pc = "start"
    /\ \/ ResourceTypeOf(cfn_event)
            \notin {"PolicyEngine", "Policy", "PolicyEngineGatewayAssociation"}
       \/ cfn_event.RequestType \notin {"Create", "Update", "Delete"}
    /\ Respond("FAILED", "str(e)", "")
    /\ UNCHANGED <<cfn_event, waitRet, caller, elapsed, polls, lastPoll, timedOut,
                   apiCalls, apiRaised>>
    /\ UNCHANGED <<intVars, oaVars, tokVars, sgVars, pxVars>>

\* back in the caller of a wait_for_*_active loop: the wait returned (ok) or
\* raised, and the caller answers CloudFormation
AfterWaitActive(ok) ==
    CASE caller = "create_policy_engine" ->
           IF ok THEN Respond("SUCCESS", "Policy engine created successfully", "pe-new")
                 ELSE Respond("FAILED", "str(e)", "")
      [] caller = "create_policy" ->
           IF ok THEN Respond("SUCCESS", "Policy created successfully", "pol-new")
                 ELSE Respond("FAILED", "str(e)", "")
      [] caller = "update_policy_engine" ->
           IF ok THEN Respond("SUCCESS", "Policy engine update",
                              OrEmpty(cfn_event.PhysicalResourceId))
                 ELSE Respond("FAILED", "str(e)", "")
      [] caller = "update_policy_engine: recreate" ->
           IF ok THEN Respond("SUCCESS", "Policy engine recreated successfully", "pe-new")
                 ELSE Respond("FAILED", "str(e)", "")

\* back in the caller of a wait_for_*_deleted loop
AfterWaitDeleted(ok) ==
    IF ok THEN Respond("SUCCESS", "deleted successfully",
                       OrEmpty(cfn_event.PhysicalResourceId))
          ELSE Respond(DeleteErrorStatus, "Delete completed with warnings",
                       OrUnknown(cfn_event.PhysicalResourceId))

\* one poll: the call is made, takes some time, and its result is noted
Poll(call, r) ==
    /\ polls' = polls + 1
    /\ apiCalls' = apiCalls + 1
    /\ lastPoll' = r
    /\ apiRaised' = IF IsException(r) THEN apiRaised \cup {<<call, r>>} ELSE apiRaised

\* time.sleep(seconds) after a call that took latency
Sleep(latency, seconds) ==
    /\ elapsed' = elapsed + latency + seconds
    /\ UNCHANGED <<cfn_pc, caller, timedOut, responses>>

\* the while condition failed: raise Exception("... within ... seconds")
TimeOut ==
    /\ timedOut' = TRUE
    /\ UNCHANGED <<polls, apiCalls, lastPoll, apiRaised, elapsed>>

\* wait_for_policy_engine_active: one pass through the loop
wait_for_policy_engine_active ==
    /\ cfn_pc = "wait_for_policy_engine_active"
    /\ IF ~InTime(elapsed, MAX_WAIT_TIME)
       THEN TimeOut /\ AfterWaitActive(FALSE) /\ UNCHANGED caller
       ELSE \E r \in PollResults, latency \in ApiLatencies :
              /\ Poll("get_policy_engine", r)
              /\ IF IsException(r) \/ r = MISSING \/ r \in {"FAILED", "DELETING"}
                 THEN AfterWaitActive(FALSE) /\ UNCHANGED <<caller, elapsed, timedOut>>
                 ELSE IF IsActive(r)
                 THEN AfterWaitActive(TRUE) /\ UNCHANGED <<caller, elapsed, timedOut>>
                 ELSE Sleep(latency, POLL_SLEEP)
    /\ UNCHANGED <<cfn_event, waitRet>>
    /\ UNCHANGED <<intVars, oaVars, tokVars, sgVars, pxVars>>

\* wait_for_policy_active: one pass through the loop
wait_for_policy_active ==
    /\ cfn_pc = "wait_for_policy_active"
    /\ IF ~InTime(elapsed, MAX_WAIT_TIME)
       THEN TimeOut /\ AfterWaitActive(FALSE) /\ UNCHANGED caller
       ELSE \E r \in PollResults, latency \in ApiLatencies :
              /\ Poll("get_policy", r)
              /\ IF r = "Exception" \/ r \in {"FAILED", "DELETING", "CREATE_FAILED"}
                 THEN AfterWaitActive(FALSE) /\ UNCHANGED <<caller, elapsed, timedOut>>
                 ELSE IF r # "ResourceNotFoundException" /\ IsActive(r)
                 THEN AfterWaitActive(TRUE) /\ UNCHANGED <<caller, elapsed, timedOut>>
                 \* not found yet, or another status: sleep and poll again
                 ELSE Sleep(latency, POLL_SLEEP)
    /\ UNCHANGED <<cfn_event, waitRet>>
    /\ UNCHANGED <<intVars, oaVars, tokVars, sgVars, pxVars>>

\* wait_for_policy_deleted: one pass through the loop
wait_for_policy_deleted ==
    /\ cfn_pc = "wait_for_policy_deleted"
    /\ IF ~InTime(elapsed, MAX_WAIT_TIME)
       THEN TimeOut /\ AfterWaitDeleted(FALSE) /\ UNCHANGED caller
       ELSE \E r \in PollResults, latency \in ApiLatencies :
              /\ Poll("get_policy", r)
              /\ IF r = "ResourceNotFoundException"
                 THEN AfterWaitDeleted(TRUE) /\ UNCHANGED <<caller, elapsed, timedOut>>
                 ELSE IF r = "Exception"
                 THEN AfterWaitDeleted(FALSE) /\ UNCHANGED <<caller, elapsed, timedOut>>
                 ELSE Sleep(latency, POLL_SLEEP)
    /\ UNCHANGED <<cfn_event, waitRet>>
    /\ UNCHANGED <<intVars, oaVars, tokVars, sgVars, pxVars>>

\* wait_for_policy_engine_deleted: one pass through the loop
wait_for_policy_engine_deleted ==
    /\ cfn_pc = "wait_for_policy_engine_deleted"
    /\ IF ~InTime(elapsed, MAX_WAIT_TIME)
       THEN TimeOut /\ AfterWaitDeleted(FALSE) /\ UNCHANGED caller
       ELSE \E r \in PollResults, latency \in ApiLatencies :
              /\ Poll("get_policy_engine", r)
              /\ IF r = "ResourceNotFoundException"
                 THEN AfterWaitDeleted(TRUE) /\ UNCHANGED <<caller, elapsed, timedOut>>
                 ELSE IF r = "Exception"
                 THEN AfterWaitDeleted(FALSE) /\ UNCHANGED <<caller, elapsed, timedOut>>
                 ELSE Sleep(latency, POLL_SLEEP)
    /\ UNCHANGED <<cfn_event, waitRet>>
    /\ UNCHANGED <<intVars, oaVars, tokVars, sgVars, pxVars>>

\* PolicyGenerator.wait_for_policy_engine_active: one pass through the loop;
\* get_policy_engine turns a ClientError into None, other exceptions escape
generator_wait_for_policy_engine_active ==
    /\ cfn_pc = "gen_wait"
    /\ IF ~InTime(elapsed, GEN_TIMEOUT)
       THEN /\ TimeOut
            /\ waitRet' = "False"
            /\ cfn_pc' = "done"
            /\ UNCHANGED <<caller, responses>>
       ELSE \E r \in PollResults, latency \in ApiLatencies :
              /\ Poll("get_policy_engine", r)
              /\ IF r = "Exception"
                 THEN /\ waitRet' = "raise" /\ cfn_pc' = "done"
                      /\ UNCHANGED <<caller, elapsed, timedOut, responses>>
                 ELSE IF r # "ResourceNotFoundException" /\ IsActive(r)
                 THEN /\ waitRet' = "True" /\ cfn_pc' = "done"
                      /\ UNCHANGED <<caller, elapsed, timedOut, responses>>
                 ELSE IF r \in {"CREATE_FAILED", "UPDATE_FAILED", "DELETE_FAILED"}
                 THEN /\ waitRet' = "False" /\ cfn_pc' = "done"
                      /\ UNCHANGED <<caller, elapsed, timedOut, responses>>
                 ELSE Sleep(latency, GEN_SLEEP) /\ UNCHANGED waitRet
    /\ UNCHANGED cfn_event
    /\ UNCHANGED <<intVars, oaVars, tokVars, sgVars, pxVars>>

CfnNext ==
    \/ create_policy_engine
    \/ delete_policy_engine
    \/ create_policy
    \/ delete_policy
    \/ update_policy_engine
    \/ update_policy
    \/ handle_policy_engine_gateway_association
    \/ unknown_request
    \/ wait_for_policy_engine_active
    \/ wait_for_policy_active
    \/ wait_for_policy_deleted
    \/ wait_for_policy_engine_deleted
    \/ generator_wait_for_policy_engine_active

(***************************************************************************)
(* Properties of the custom-resource handler and of the wait loops.        *)
(***************************************************************************)
IsRequest(rq, rts) ==
    /\ cfn_event # GeneratorRun
    /\ cfn_pc # "idle"
    /\ cfn_event.RequestType = rq
    /\ ResourceTypeOf(cfn_event) \in rts

LastResponse == responses[Len(responses)]

\* C5: a Delete of a PolicyEngine or a Policy is always answered SUCCESS,
\* whether the delete call raises, the wait-for-deleted poll raises or the
\* wait times out; with an empty PhysicalResourceId (or, for a Policy, no
\* PolicyEngineId) no AgentCore API call is made.
C5_DeleteNeverFails ==
    IsRequest("Delete", {"PolicyEngine", "Policy"}) =>
        /\ \A i \in 1..Len(responses) : responses[i].Status = "SUCCESS"
        /\ cfn_pc = "done" => Len(responses) = 1
        /\ (\/ OrEmpty(cfn_event.PhysicalResourceId) = ""
            \/ /\ ResourceTypeOf(cfn_event) = "Policy"
               /\ OrEmpty(cfn_event.PolicyEngineId) = "")
           => apiCalls = 0

\* C5 witness: the wait for deletion timed out and the Delete was still
\* answered SUCCESS
C5_Witness ==
    /\ IsRequest("Delete", {"PolicyEngine", "Policy"})
    /\ cfn_pc = "done"
    /\ timedOut
    /\ Len(responses) = 1
    /\ LastResponse.Status = "SUCCESS"

\* a status the running wait_for_*_active loop recognises as a failure
RecognisedFailure ==
    \/ caller = "create_policy_engine" /\ lastPoll \in {"FAILED", "DELETING"}
    \/ caller = "create_policy" /\ lastPoll \in {"FAILED", "DELETING", "CREATE_FAILED"}

\* C6 (as stated): a Create of a PolicyEngine or a Policy is answered
\* SUCCESS only if a poll for the created id returned ACTIVE; if a poll
\* returns a recognised failure status, the wait times out, or any API call
\* raises, the answer is FAILED.
C6_CreateSucceedsOnlyWhenActive ==
    (IsRequest("Create", {"PolicyEngine", "Policy"}) /\ cfn_pc = "done") =>
        /\ Len(responses) = 1
        /\ LastResponse.Status \in {"SUCCESS", "FAILED"}
        /\ LastResponse.Status = "SUCCESS" => lastPoll = "ACTIVE"
        /\ (RecognisedFailure \/ timedOut \/ apiRaised # {})
           => LastResponse.Status = "FAILED"

\* the get_policy polls of wait_for_policy_active that found nothing yet
RetriedNotFound == {<<"get_policy", "ResourceNotFoundException">>}

\* C6 (amended): a Create of a PolicyEngine or a Policy is answered SUCCESS
\* only if a poll for the created id returned ACTIVE; if a poll returns a
\* recognised failure status, the wait times out, or an API call raises
\* anything but the ResourceNotFoundException of a get_policy poll (which
\* wait_for_policy_active takes as "not there yet" and polls again), the
\* answer is FAILED.
C6_CreateSucceedsOnlyWhenActiveAmended ==
    (IsRequest("Create", {"PolicyEngine", "Policy"}) /\ cfn_pc = "done") =>
        /\ Len(responses) = 1
        /\ LastResponse.Status \in {"SUCCESS", "FAILED"}
        /\ LastResponse.Status = "SUCCESS" => lastPoll = "ACTIVE"
        /\ (RecognisedFailure \/ timedOut \/ apiRaised \ RetriedNotFound # {})
           => LastResponse.Status = "FAILED"

\* C6 witness: a policy that was not found at first, then polled ACTIVE
C6_Witness ==
    /\ IsRequest("Create", {"Policy"})
    /\ cfn_pc = "done"
    /\ apiRaised = RetriedNotFound
    /\ polls > 1
    /\ lastPoll = "ACTIVE"
    /\ LastResponse.Status = "SUCCESS"

\* at most 30 polls in a handler loop, 60 in the generator's; a loop that
\* ran out of time stopped polling, the handler loops by raising into the
\* caller's except block, the generator's by returning False
C7_PollsBounded ==
    cfn_pc # "idle" =>
        /\ cfn_event # GeneratorRun => polls <= 30
        /\ cfn_event = GeneratorRun => polls <= 60
        /\ timedOut =>
              /\ cfn_pc = "done"
              /\ IF cfn_event = GeneratorRun
                 THEN elapsed >= GEN_TIMEOUT /\ waitRet = "False"
                 ELSE /\ elapsed >= MAX_WAIT_TIME
                      /\ LastResponse.Reason \in {"str(e)", "Delete completed with warnings"}

\* C7: every wait-for-ACTIVE / wait-for-DELETED loop terminates: it stops
\* polling once the elapsed time reaches the timeout, after at most 30 polls
\* (10 s sleeps) in the custom-resource handler and 60 polls (5 s sleeps) in
\* PolicyGenerator, whatever the service keeps answering.
C7_WaitLoopsTerminate ==
    []C7_PollsBounded /\ <>(cfn_pc = "done")

\* C7 witness: a loop polled as often as it can and then timed out
C7_Witness ==
    /\ cfn_pc = "done"
    /\ timedOut
    /\ polls = IF cfn_event = GeneratorRun THEN 60 ELSE 30

\* the request went to the tool and apply_guardrail was never called
ReachedToolUnanalysed == IsPassThrough /\ guardrailCalls = <<>>

\* every apply_guardrail call was given params.arguments.query, nothing else
OnlyQuerySubmitted ==
    /\ Len(guardrailCalls) <= 1
    /\ \A i \in 1..Len(guardrailCalls) :
          /\ HasQuery(event)
          /\ guardrailCalls[i].query = Get(ArgumentsOf(event), "query", Null)

\* C15 (as stated): prompt-injection interceptor: a tools/call request
\* reaches the tool without any apply_guardrail call if and only if
\* params.arguments has no non-empty 'query' value; only the 'query'
\* argument is ever submitted to Guardrails.
C15_UnanalysedIffNoQuery ==
    (handler = "prompt" /\ IsToolsCall(event)) =>
        /\ ReachedToolUnanalysed <=> ~HasQuery(event)
        /\ OnlyQuerySubmitted

\* C15 (amended): prompt-injection interceptor: a tools/call request whose
\* params and params.arguments are objects (or left out) reaches the tool
\* without any apply_guardrail call if and only if params.arguments has no
\* non-empty 'query' value; only the 'query' argument is ever submitted to
\* Guardrails, so text carried in any other argument field is passed
\* through unanalysed.
C15_UnanalysedIffNoQueryInObject ==
    (handler = "prompt" /\ HasArguments(event) /\ IsDict(ArgumentsOf(event))) =>
        /\ ReachedToolUnanalysed <=> ~HasQuery(event)
        /\ OnlyQuerySubmitted

\* C15 witness: the query was submitted and found harmless, and the request
\* went through with an injection text in another argument
C15_Witness ==
    /\ handler = "prompt"
    /\ HasQuery(event)
    /\ Len(ArgumentsOf(event).items) = 2
    /\ ArgumentsOf(event).items[1][1] = "a"
    /\ Offending(ArgumentsOf(event).items[1][2].s)
    /\ Len(guardrailCalls) = 1
    /\ guardrailCalls[1].query = Get(ArgumentsOf(event), "query", Null)
    /\ ~Offending(guardrailCalls[1].query.s)
    /\ IsPassThrough

\* a query-less tools/call with text in another argument went through
\* without any apply_guardrail call
C15_NoQueryReached ==
    /\ handler = "prompt"
    /\ GUARDRAIL_ID # ""
    /\ HasArguments(event)
    /\ IsDict(ArgumentsOf(event))
    /\ ~HasKey(ArgumentsOf(event), "query")
    /\ StringsIn(ArgumentsOf(event)) # {}
    /\ ReachedToolUnanalysed

\* the handler was invoked with a custom-resource event that carries StackId,
\* RequestId, LogicalResourceId and ResponseURL
CompleteEvent ==
    /\ cfn_pc # "idle"
    /\ cfn_event # GeneratorRun
    /\ cfn_event.Envelope = "complete"

\* C14: for every custom-resource event that carries StackId, RequestId,
\* LogicalResourceId and ResponseURL, whatever its RequestType and
\* ResourceType and whatever the AgentCore API calls return or raise,
\* lambda_handler sends exactly one response (Status SUCCESS or FAILED) before
\* it returns: none while it is still running, one when it has returned,
\* never two.
C14_ExactlyOneResponse ==
    CompleteEvent =>
        /\ Len(responses) = IF cfn_pc = "done" THEN 1 ELSE 0
        /\ \A i \in 1..Len(responses) : responses[i].Status \in {"SUCCESS", "FAILED"}

\* C14 witness: a request of an unknown kind raised ValueError and was
\* answered FAILED, once
C14_Witness ==
    /\ CompleteEvent
    /\ cfn_pc = "done"
    /\ cfn_event.RequestType = "Replace"
    /\ Len(responses) = 1
    /\ responses[1].Status = "FAILED"

\* the first get_policy_engine of update_policy_engine raised
FirstLookupRaised(e) == <<"update_policy_engine: get_policy_engine", e>> \in apiRaised

\* create_policy_engine was called by update_policy_engine: it raised, or the
\* wait for the new engine was entered
Recreated ==
    \/ caller = "update_policy_engine: recreate"
    \/ \E e \in {"ResourceNotFoundException", "Exception"} :
          <<"create_policy_engine", e>> \in apiRaised

\* a call after the first lookup raised ResourceNotFoundException:
\* update_policy_engine itself, or a poll of the wait for ACTIVE
LaterNotFound ==
    \/ <<"update_policy_engine", "ResourceNotFoundException">> \in apiRaised
    \/ <<"get_policy_engine", "ResourceNotFoundException">> \in apiRaised

\* C16: PolicyEngine Update reconciliation.  The engine is created anew
\* exactly when the first get_policy_engine for the event's
\* PhysicalResourceId raises ResourceNotFoundException, and then a SUCCESS
\* answer follows a poll that returned ACTIVE and carries the new engine id;
\* when the engine exists a SUCCESS answer carries the PhysicalResourceId
\* unchanged; a ResourceNotFoundException raised later by
\* update_policy_engine or by the wait creates nothing and yields FAILED.
C16_UpdateReconciles ==
    (/\ IsRequest("Update", {"PolicyEngine"})
     /\ cfn_event.PhysicalResourceId # MISSING
     /\ cfn_pc = "done") =>
        /\ Len(responses) = 1
        /\ Recreated <=> FirstLookupRaised("ResourceNotFoundException")
        /\ LastResponse.Status = "SUCCESS" <=>
              (lastPoll = "ACTIVE" /\ ~FirstLookupRaised("Exception"))
        /\ LastResponse.Status = "SUCCESS" =>
              LastResponse.PhysicalResourceId =
                 IF Recreated THEN "pe-new" ELSE cfn_event.PhysicalResourceId
        /\ (~Recreated /\ LaterNotFound) =>
              /\ LastResponse.Status = "FAILED"
              /\ caller # "update_policy_engine: recreate"

\* C16 witness: the engine was gone, a new one was created and became ACTIVE
C16_Witness ==
    /\ IsRequest("Update", {"PolicyEngine"})
    /\ cfn_event.PhysicalResourceId = "pe-1"
    /\ cfn_pc = "done"
    /\ FirstLookupRaised("ResourceNotFoundException")
    /\ polls > 1
    /\ lastPoll = "ACTIVE"
    /\ LastResponse.Status = "SUCCESS"
    /\ LastResponse.PhysicalResourceId = "pe-new"

\* the engine existed, update_policy_engine raised ResourceNotFoundException:
\* nothing was created and the answer is FAILED
C16_LaterNotFoundReached ==
    /\ IsRequest("Update", {"PolicyEngine"})
    /\ cfn_event.PhysicalResourceId = "pe-1"
    /\ cfn_pc = "done"
    /\ apiRaised = {<<"update_policy_engine", "ResourceNotFoundException">>}
    /\ apiCalls = 2
    /\ LastResponse.Status = "FAILED"

(***************************************************************************)
(* The MCP OAuth proxy: mcp_proxy_lambda.py.                               *)
(* Texts are sequences of one-character strings of printable ASCII; the   *)
(* conversions the handlers apply to them (percent-decoding and -encoding, *)
(* query-string parsing, json.dumps / json.loads of the compound state,    *)
(* base64) are computed character by character.                           *)
(***************************************************************************)
DIGIT_SEQ == <<"0","1","2","3","4","5","6","7","8","9">>

\* the printable ASCII characters, code points 32..126 (the grave accent,
\* 96, is spelled out)
ASCII ==
    <<" ","!","\"","#","$","%","&","'","(",")","*","+",",","-",".","/">>
    \o DIGIT_SEQ \o <<":",";","<","=",">","?","@">>
    \o UPPER \o <<"[","\\","]","^","_","grave">>
    \o LOWER \o <<"{","|","}","~">>

\* ord(c) and chr(n)
Ord(c) == 31 + CHOOSE i \in 1..Len(ASCII) : ASCII[i] = c
Chr(n) == ASCII[n - 31]

HEX == DIGIT_SEQ \o <<"A","B","C","D","E","F">>
IsHex(c) == \E i \in 1..16 : HEX[i] = c \/ Lower(HEX[i]) = c
HexVal(c) == (CHOOSE i \in 1..16 : HEX[i] = c \/ Lower(HEX[i]) = c) - 1

\* str.replace(old, new) for single characters
Replace(s, old, new) ==
    SubSeq([i \in 1..Len(s) |-> IF s[i] = old THEN new ELSE s[i]], 1, Len(s))

\* position of the first c in s at or after i, Len(s) + 1 if there is none
RECURSIVE Find(_, _, _)
Find(s, c, i) ==
    IF i > Len(s) \/ s[i] = c THEN i ELSE Find(s, c, i + 1)

\* urllib.parse.unquote: every %XX with two hex digits becomes the
\* character XX, anything else stays as it is
RECURSIVE unquote(_)
unquote(s) ==
    LET p == Find(s, "%", 1) IN
    IF p > Len(s) THEN s
    ELSE IF p + 2 <= Len(s) /\ IsHex(s[p + 1]) /\ IsHex(s[p + 2])
         THEN SubSeq(s, 1, p - 1)
              \o <<Chr(16 * HexVal(s[p + 1]) + HexVal(s[p + 2]))>>
              \o unquote(SubSeq(s, p + 3, Len(s)))
         ELSE SubSeq(s, 1, p) \o unquote(SubSeq(s, p + 1, Len(s)))

\* urllib.parse.quote_plus: letters, digits and _.-~ stay, a space becomes
\* +, every other character becomes %XX
IsUnreserved(c) ==
    \/ \E i \in 1..26 : UPPER[i] = c \/ LOWER[i] = c
    \/ c \in DIGITS
    \/ c \in {"_", ".", "-", "~"}

RECURSIVE quote_plus(_)
quote_plus(s) ==
    IF s = <<>> THEN <<>>
    ELSE LET c == Head(s) IN
         (IF IsUnreserved(c) THEN <<c>>
          ELSE IF c = " " THEN <<"+">>
          ELSE <<"%", HEX[(Ord(c) \div 16) + 1], HEX[(Ord(c) % 16) + 1]>>)
         \o quote_plus(Tail(s))

\* urllib.parse.quote with its default safe='/', the encoding a client
\* applies to a value it puts into a URL
RECURSIVE quote(_)
quote(s) ==
    IF s = <<>> THEN <<>>
    ELSE LET c == Head(s) IN
         (IF IsUnreserved(c) \/ c = "/" THEN <<c>>
          ELSE <<"%", HEX[(Ord(c) \div 16) + 1], HEX[(Ord(c) % 16) + 1]>>)
         \o quote(Tail(s))

\* a dict of query parameters: <<name, value>> pairs in insertion order
QHas(d, k) == \E i \in 1..Len(d) : d[i][1] = k
QGet(d, k, default) ==
    IF QHas(d, k) THEN d[CHOOSE i \in 1..Len(d) : d[i][1] = k][2] ELSE default
QSet(d, k, v) ==
    IF QHas(d, k)
    THEN SubSeq([i \in 1..Len(d) |-> IF d[i][1] = k THEN <<k, v>> ELSE d[i]], 1, Len(d))
    ELSE Append(d, <<k, v>>)
QPop(d, k) == SelectSeq(d, LAMBDA kv : kv[1] # k)

\* dict(pairs): a repeated name keeps its first position and its last value
RECURSIVE ToDict(_, _)
ToDict(pairs, d) ==
    IF pairs = <<>> THEN d
    ELSE ToDict(Tail(pairs), QSet(d, Head(pairs)[1], Head(pairs)[2]))

\* urllib.parse.urlencode(params)
RECURSIVE urlencode(_)
urlencode(d) ==
    IF d = <<>> THEN <<>>
    ELSE quote_plus(d[1][1]) \o <<"=">> \o quote_plus(d[1][2])
         \o (IF Len(d) > 1 THEN <<"&">> ELSE <<>>) \o urlencode(Tail(d))

\* urllib.parse.parse_qsl(qs, keep_blank_values): fields are split at &,
\* name and value at the first =, + is a space, %XX is decoded; empty
\* fields, and without keep_blank_values fields without value, are dropped
unquote_plus(s) == unquote(Replace(s, "+", " "))

RECURSIVE parse_qsl(_, _)
parse_qsl(qs, keep_blank_values) ==
    IF qs = <<>> THEN <<>>
    ELSE LET a == Find(qs, "&", 1)
             field == SubSeq(qs, 1, a - 1)
             rest == parse_qsl(SubSeq(qs, a + 1, Len(qs)), keep_blank_values)
             e == Find(field, "=", 1)
             name == SubSeq(field, 1, e - 1)
             value == SubSeq(field, e + 1, Len(field))
         IN  IF field = <<>> THEN rest
             ELSE IF e > Len(field) /\ ~keep_blank_values THEN rest
             ELSE IF value # <<>> \/ keep_blank_values
                  THEN <<<<unquote_plus(name), unquote_plus(value)>>>> \o rest
                  ELSE rest

\* str.encode() and bytes.decode() of ASCII text
Encode(s) == SubSeq([i \in 1..Len(s) |-> Ord(s[i])], 1, Len(s))
Decode(b) == SubSeq([i \in 1..Len(b) |-> Chr(b[i])], 1, Len(b))

\* json.dumps escapes the quote and the backslash of a string
RECURSIVE json_escape(_)
json_escape(s) ==
    IF s = <<>> THEN <<>>
    ELSE (IF Head(s) \in {"\"", "\\"} THEN <<"\\", Head(s)>> ELSE <<Head(s)>>)
         \o json_escape(Tail(s))

\* json.dumps of a dict of strings: {"k": "v", "k": "v"}
RECURSIVE json_members(_)
json_members(d) ==
    IF d = <<>> THEN <<>>
    ELSE <<"\"">> \o json_escape(d[1][1]) \o <<"\"", ":", " ", "\"">>
         \o json_escape(d[1][2]) \o <<"\"">>
         \o (IF Len(d) > 1 THEN <<",", " ">> ELSE <<>>) \o json_members(Tail(d))

\* json.dumps that writes its strings without escaping them
json_dumps_unescaped(d) ==
    <<"{", "\"">> \o d[1][1] \o <<"\"", ":", " ", "\"">> \o d[1][2]
    \o <<"\"", ",", " ", "\"">> \o d[2][1] \o <<"\"", ":", " ", "\"">> \o d[2][2]
    \o <<"\"", "}">>

\* json.dumps(d)
json_dumps(d) == <<"{">> \o json_members(d) \o <<"}">>

\* reads a JSON string whose opening quote is before position i
RECURSIVE ReadString(_, _, _)
ReadString(t, i, acc) ==
    IF i > Len(t) THEN [ok |-> FALSE]
    ELSE IF t[i] = "\"" THEN [ok |-> TRUE, s |-> acc, next |-> i + 1]
    ELSE IF t[i] = "\\"
         THEN IF i + 1 <= Len(t) /\ t[i + 1] \in {"\"", "\\", "/"}
              THEN ReadString(t, i + 2, Append(acc, t[i + 1]))
              ELSE [ok |-> FALSE]
    ELSE ReadString(t, i + 1, Append(acc, t[i]))

Follows(t, i, w) == i + Len(w) - 1 <= Len(t) /\ SubSeq(t, i, i + Len(w) - 1) = w

\* reads "k": "v" members from position i up to the closing brace
RECURSIVE ReadMembers(_, _, _)
ReadMembers(t, i, acc) ==
    IF ~Follows(t, i, <<"\"">>) THEN [ok |-> FALSE]
    ELSE LET k == ReadString(t, i + 1, <<>>) IN
         IF ~k.ok \/ ~Follows(t, k.next, <<":", " ", "\"">>) THEN [ok |-> FALSE]
         ELSE LET v == ReadString(t, k.next + 3, <<>>) IN
              IF ~v.ok THEN [ok |-> FALSE]
              ELSE LET d == QSet(acc, k.s, v.s) IN
                   IF Follows(t, v.next, <<"}">>) /\ v.next = Len(t)
                   THEN [ok |-> TRUE, v |-> d]
                   ELSE IF Follows(t, v.next, <<",", " ">>)
                        THEN ReadMembers(t, v.next + 2, d)
                        ELSE [ok |-> FALSE]

\* json.loads of a text as json.dumps writes it; any other text (the empty
\* one included) is a JSONDecodeError
json_loads(t) ==
    IF t = <<"{", "}">> THEN [ok |-> TRUE, v |-> <<>>]
    ELSE IF Follows(t, 1, <<"{">>) THEN ReadMembers(t, 2, <<>>)
    ELSE [ok |-> FALSE]

\* base64
B64 == UPPER \o LOWER \o DIGIT_SEQ \o <<"+", "/">>
B64Val(c) == (CHOOSE i \in 1..64 : B64[i] = c) - 1
IsB64(c) == \E i \in 1..64 : B64[i] = c

RECURSIVE b64encode(_)
b64encode(b) ==
    IF b = <<>> THEN <<>>
    ELSE IF Len(b) = 1
         THEN <<B64[(b[1] \div 4) + 1], B64[((b[1] % 4) * 16) + 1], "=", "=">>
    ELSE IF Len(b) = 2
         THEN <<B64[(b[1] \div 4) + 1],
                B64[((b[1] % 4) * 16 + b[2] \div 16) + 1],
                B64[((b[2] % 16) * 4) + 1], "=">>
    ELSE <<B64[(b[1] \div 4) + 1],
           B64[((b[1] % 4) * 16 + b[2] \div 16) + 1],
           B64[((b[2] % 16) * 4 + b[3] \div 64) + 1],
           B64[(b[3] % 64) + 1]>> \o b64encode(SubSeq(b, 4, Len(b)))

\* base64.b64decode of a text of whole quads, padded with = only at the
\* end; a text that is not made of whole quads is a binascii.Error
RECURSIVE b64decode(_)
b64decode(s) ==
    IF s = <<>> THEN [ok |-> TRUE, b |-> <<>>]
    ELSE IF Len(s) < 4 \/ ~IsB64(s[1]) \/ ~IsB64(s[2]) THEN [ok |-> FALSE]
    ELSE LET v1 == B64Val(s[1])
             v2 == B64Val(s[2])
             b1 == v1 * 4 + v2 \div 16
         IN  IF Len(s) = 4 /\ s[3] = "=" /\ s[4] = "="
             THEN [ok |-> TRUE, b |-> <<b1>>]
             ELSE IF ~IsB64(s[3]) THEN [ok |-> FALSE]
             ELSE LET v3 == B64Val(s[3])
                      b2 == (v2 % 16) * 16 + v3 \div 4
                  IN  IF Len(s) = 4 /\ s[4] = "="
                      THEN [ok |-> TRUE, b |-> <<b1, b2>>]
                      ELSE IF ~IsB64(s[4]) THEN [ok |-> FALSE]
                      ELSE LET rest == b64decode(SubSeq(s, 5, Len(s))) IN
                           IF rest.ok
                           THEN [ok |-> TRUE,
                                 b |-> <<b1, b2, (v3 % 4) * 64 + B64Val(s[4])>> \o rest.b]
                           ELSE [ok |-> FALSE]

\* the URL-safe alphabet writes - for + and _ for /
urlsafe_b64encode(b) == Replace(Replace(b64encode(b), "+", "-"), "/", "_")
urlsafe_b64decode(s) == b64decode(Replace(Replace(s, "-", "+"), "_", "/"))

\* names of the parameters and the texts the handlers put together
T ==
    [ client_id |-> <<"c","l","i","e","n","t","_","i","d">>,
      client_secret |-> <<"c","l","i","e","n","t","_","s","e","c","r","e","t">>,
      redirect_uri |-> <<"r","e","d","i","r","e","c","t","_","u","r","i">>,
      state |-> <<"s","t","a","t","e">>,
      scope |-> <<"s","c","o","p","e">>,
      resource |-> <<"r","e","s","o","u","r","c","e">>,
      code |-> <<"c","o","d","e">>,
      error |-> <<"e","r","r","o","r">>,
      grant_type |-> <<"g","r","a","n","t","_","t","y","p","e">>,
      https |-> <<"h","t","t","p","s",":","/","/">>,
      localhost |-> <<"h","t","t","p",":","/","/","l","o","c","a","l","h","o","s","t">>,
      callback |-> <<"/","c","a","l","l","b","a","c","k">>,
      authorize |-> <<"/","o","a","u","t","h","2","/","a","u","t","h","o","r","i","z","e">>,
      token |-> <<"/","o","a","u","t","h","2","/","t","o","k","e","n">>,
      default |-> <<"$","d","e","f","a","u","l","t">> ]

\* os.environ: COGNITO_DOMAIN and CLIENT_ID
COGNITO_DOMAIN == T.https \o <<"i","d","p","/">>
CLIENT_ID == <<"p","r","o","x","y","-","i","d">>

\* str.rstrip(c)
RECURSIVE RStrip(_, _)
RStrip(s, c) ==
    IF s # <<>> /\ s[Len(s)] = c THEN RStrip(SubSeq(s, 1, Len(s) - 1), c) ELSE s

\* get_api_url(event): the Host header, else the API Gateway domain and
\* stage; a header or entry that is missing reads like an empty one
get_api_url(ev) ==
    LET host == IF ev.host # <<>> THEN ev.host ELSE ev.Host IN
    IF host # <<>> THEN T.https \o host
    ELSE IF ev.domainName # <<>> /\ ev.stage # <<>> /\ ev.stage # T.default
         THEN T.https \o ev.domainName \o <<"/">> \o ev.stage
    ELSE IF ev.domainName # <<>> THEN T.https \o ev.domainName
    ELSE T.localhost

\* json_response(status_code, body)
json_response(status_code, error) == [statusCode |-> status_code, error |-> error]
Redirect(location) == [statusCode |-> 302, Location |-> location]

\* the compound state: base64(json({state, redirect_uri}))
compound_state(decoded_state, decoded_redirect_uri) ==
    urlsafe_b64encode(Encode(json_dumps(
        <<<<T.state, decoded_state>>, <<T.redirect_uri, decoded_redirect_uri>>>>)))

\* handle_authorize(event); queryStringParameters None reads like {}
handle_authorize(ev) ==
    LET p0 == ev.queryStringParameters
        p1 == QPop(p0, T.resource)
        p2 == IF QHas(p1, T.scope)
              THEN QSet(p1, T.scope, Replace(QGet(p1, T.scope, <<>>), "+", " "))
              ELSE p1
        p3 == QSet(p2, T.client_id, CLIENT_ID)
        original_redirect_uri == QGet(p3, T.redirect_uri, <<>>)
        original_state == QGet(p3, T.state, <<>>)
        p4 == IF original_redirect_uri # <<>>
              THEN QSet(QSet(p3, T.state,
                             compound_state(unquote(original_state),
                                            unquote(original_redirect_uri))),
                        T.redirect_uri, get_api_url(ev) \o T.callback)
              ELSE p3
    IN  Redirect(RStrip(COGNITO_DOMAIN, "/") \o T.authorize \o <<"?">> \o urlencode(p4))

\* handle_callback(event)
handle_callback(ev) ==
    LET params == ev.queryStringParameters
        code == QGet(params, T.code, <<>>)
        encoded_state == QGet(params, T.state, <<>>)
        error == QGet(params, T.error, <<>>)
        encoded_state_clean == Replace(unquote(encoded_state), " ", "+")
        decoded == urlsafe_b64decode(encoded_state_clean)
        loaded == json_loads(Decode(decoded.b))
        original_state == QGet(loaded.v, T.state, <<>>)
        original_redirect_uri == QGet(loaded.v, T.redirect_uri, <<>>)
    IN  IF error # <<>> THEN json_response(400, "error")
        ELSE IF ~decoded.ok THEN json_response(400, "Invalid state parameter")
        ELSE IF ~loaded.ok THEN json_response(400, "Invalid state parameter")
        ELSE IF original_redirect_uri = <<>>
             THEN json_response(400, "Missing redirect_uri in state")
        ELSE Redirect(original_redirect_uri \o <<"?">>
                      \o urlencode(<<<<T.code, code>>, <<T.state, original_state>>>>))

\* what urlopen(req) does with the token request
CognitoOutcomes == {"200", "HTTPError", "URLError"}

\* a token handler that leaves the caller's client_id in place
token_params_keep_client_id(params, client_secret, api_url) ==
    LET p2 == IF client_secret # <<>> THEN QSet(params, T.client_secret, client_secret) ELSE params
    IN  IF QHas(p2, T.redirect_uri) THEN QSet(p2, T.redirect_uri, api_url \o T.callback) ELSE p2

\* the parameters handle_token sends on
token_params(params, client_secret, api_url) ==
    LET p1 == QSet(params, T.client_id, CLIENT_ID)
        p2 == IF client_secret # <<>> THEN QSet(p1, T.client_secret, client_secret) ELSE p1
    IN  IF QHas(p2, T.redirect_uri) THEN QSet(p2, T.redirect_uri, api_url \o T.callback) ELSE p2

\* handle_token(event): the POST it makes and what it returns
handle_token(ev, client_secret, outcome) ==
    LET raw == IF ev.isBase64Encoded THEN b64decode(ev.body) ELSE [ok |-> TRUE]
        body == IF ev.isBase64Encoded THEN Decode(raw.b) ELSE ev.body
        params == token_params(ToDict(parse_qsl(body, FALSE), <<>>),
                               client_secret, get_api_url(ev))
        req == [url |-> RStrip(COGNITO_DOMAIN, "/") \o T.token, data |-> urlencode(params)]
    IN  IF ~raw.ok THEN [request |-> NoResult, response |-> Raised("binascii.Error")]
        ELSE [request |-> req,
              response |-> CASE outcome = "200" -> json_response(200, "")
                             [] outcome = "HTTPError" -> json_response(400, "e.read()")
                             [] OTHER -> Raised("URLError")]

(***************************************************************************)
(* Requests to the proxy.  A value reaches the handler as the client wrote *)
(* it, percent-encoded up to MaxEscapes times: an API Gateway decodes the   *)
(* query string once before it fills queryStringParameters, a load         *)
(* balancer hands it over as it is.                                        *)
(***************************************************************************)
MaxEscapes == 2

RECURSIVE Escaped(_, _)
Escaped(s, n) == IF n = 0 THEN s ELSE quote(Escaped(s, n - 1))

StateTexts ==
    { Escaped(s, n) :
        s \in { <<>>, <<"x","y">>, <<"\"","\\">>, <<"%">>, <<"a"," ","b">>,
                <<"+","&","=">> },
        n \in 0..MaxEscapes }

UriTexts ==
    { Escaped(s, n) :
        s \in { <<>>, <<"v",":","/","c">>, <<"v",":","/","c","?","q","=","1">>,
                <<"v",":","/","a"," ","%">> },
        n \in 0..MaxEscapes }

\* an optional parameter: no value, or one <<name, value>> pair
NoValue == <<"(none)">>
Param(k, v) == IF v = NoValue THEN <<>> ELSE <<<<k, v>>>>

\* where get_api_url finds the proxy's own address
ApiSources ==
    { [host |-> <<"a","l","b">>, Host |-> <<>>, domainName |-> <<>>, stage |-> <<>>],
      [host |-> <<>>, Host |-> <<"A","L","B">>, domainName |-> <<"g","w">>, stage |-> T.default],
      [host |-> <<>>, Host |-> <<>>, domainName |-> <<"g","w">>, stage |-> <<"p">>],
      [host |-> <<>>, Host |-> <<>>, domainName |-> <<"g","w">>, stage |-> T.default],
      [host |-> <<>>, Host |-> <<>>, domainName |-> <<>>, stage |-> <<>>] }

Http(src, params, body, b64) ==
    [queryStringParameters |-> params, body |-> body, isBase64Encoded |-> b64,
     host |-> src.host, Host |-> src.Host,
     domainName |-> src.domainName, stage |-> src.stage]

\* /authorize with a redirect_uri and a state or without, and with or
\* without a client_id, a scope and a resource of the client's
AuthorizeEvents ==
    LET AuthorizeExtras ==
          { [client_id |-> NoValue, scope |-> NoValue, resource |-> NoValue],
            [client_id |-> <<"e","v","i","l">>, scope |-> <<"a","+","b">>,
             resource |-> <<"r","/","m","c","p">>] }
    IN
    { Http(src,
           Param(T.client_id, x.client_id) \o Param(T.redirect_uri, r) \o Param(T.state, s)
           \o Param(T.scope, x.scope) \o Param(T.resource, x.resource),
           <<>>, FALSE) :
        src \in {a \in ApiSources : a.Host = <<>> /\ a.stage # T.default},
        x \in AuthorizeExtras,
        r \in UriTexts \cup {NoValue}, s \in StateTexts \cup {NoValue} }

\* the query of a URL, as its receiver reads it
QueryOf(url) ==
    parse_qsl(SubSeq(url, Find(url, "?", 1) + 1, Len(url)), TRUE)

\* the state Cognito was given by the redirect of /authorize
StateSent(response) == QGet(QueryOf(response.Location), T.state, <<>>)

\* a callback with a code and a state, or with the error Cognito reports;
\* the state comes back as sent (decoded by the gateway), still
\* percent-encoded, cut short, or not at all
CallbackEvents(sent) ==
    LET src == CHOOSE a \in ApiSources : a.host # <<>> IN
    { Http(src, Param(T.code, c) \o Param(T.state, s), <<>>, FALSE) :
        c \in { <<>>, <<"a","/","=","b">> },
        s \in { sent, quote_plus(sent), SubSeq(sent, 1, Len(sent) - 1), <<>> } }
    \cup { Http(src, Param(T.state, sent) \o Param(T.error, <<"d","e","n","y">>),
                <<>>, FALSE) }

\* token requests, the body as it is or base64-encoded
TokenEvents ==
    LET TokenBodies ==
          { urlencode(<<<<T.grant_type, <<"c","o","d","e">>>>>>
                      \o Param(T.redirect_uri, r) \o Param(T.client_id, c)
                      \o Param(T.client_secret, s)) :
              r \in UriTexts \cup {NoValue},
              c \in {NoValue, <<"e","v","i","l">>},
              s \in {NoValue, <<"z","z">>} }
    IN
    { Http(src, <<>>, body, FALSE) : src \in ApiSources, body \in TokenBodies }
    \cup { Http(src, <<>>, b64encode(Encode(body)), TRUE) :
             src \in ApiSources, body \in TokenBodies }

OAuthStart ==
    /\ CLIENT_SECRET \in { <<>>, <<"s","3","c">> }
    /\ oa_pc = "start"
    /\ authorize_event = NoResult
    /\ authorize_response = NoResult
    /\ callback_event = NoResult
    /\ callback_response = NoResult
    /\ token_event = NoResult
    /\ token_request = NoResult
    /\ token_response = NoResult

OAuthIdle ==
    /\ CLIENT_SECRET = <<>>
    /\ oa_pc = "idle"
    /\ authorize_event = NoResult
    /\ authorize_response = NoResult
    /\ callback_event = NoResult
    /\ callback_response = NoResult
    /\ token_event = NoResult
    /\ token_request = NoResult
    /\ token_response = NoResult

\* GET /authorize
authorize ==
    /\ oa_pc = "start"
    /\ \E ev \in AuthorizeEvents :
          /\ authorize_event' = ev
          /\ authorize_response' = handle_authorize(ev)
    /\ oa_pc' = "authorized"
    /\ UNCHANGED <<CLIENT_SECRET, callback_event, callback_response,
                   token_event, token_request, token_response>>
    /\ UNCHANGED <<intVars, cfnVars, tokVars, sgVars, pxVars>>

\* GET /callback, a later invocation
callback ==
    /\ oa_pc = "authorized"
    /\ \E ev \in CallbackEvents(StateSent(authorize_response)) :
          /\ callback_event' = ev
          /\ callback_response' = handle_callback(ev)
    /\ oa_pc' = "called back"
    /\ UNCHANGED <<CLIENT_SECRET, authorize_event, authorize_response,
                   token_event, token_request, token_response>>
    /\ UNCHANGED <<intVars, cfnVars, tokVars, sgVars, pxVars>>

\* POST /token
token ==
    /\ oa_pc = "start"
    /\ \E ev \in TokenEvents, outcome \in CognitoOutcomes :
          LET r == handle_token(ev, CLIENT_SECRET, outcome) IN
          /\ token_event' = ev
          /\ token_request' = r.request
          /\ token_response' = r.response
    /\ oa_pc' = "token"
    /\ UNCHANGED <<CLIENT_SECRET, authorize_event, authorize_response,
                   callback_event, callback_response>>
    /\ UNCHANGED <<intVars, cfnVars, tokVars, sgVars, pxVars>>

OAuthNext == authorize \/ callback \/ token

(***************************************************************************)
(* The MCP proxy forwarding to the gateway: proxy_to_gateway.  Bodies on   *)
(* the wire are byte sequences, texts are what .decode() makes of them.    *)
(***************************************************************************)
MCP == <<"/","m","c","p">>
GW_HOST == T.https \o <<"g">>

\* s.endswith(w)
EndsWith(s, w) == Len(s) >= Len(w) /\ SubSeq(s, Len(s) - Len(w) + 1, Len(s)) = w

\* GATEWAY_URL[:-4] if GATEWAY_URL.endswith("/mcp") else GATEWAY_URL
gateway_base(url) ==
    IF EndsWith(url, MCP) THEN SubSeq(url, 1, Len(url) - 4) ELSE url

\* str.replace(old, new): the occurrences of old found from the left, none
\* overlapping another; an empty old is found before every character and
\* at the end
RECURSIVE str_replace(_, _, _)
str_replace(s, old, new) ==
    IF old = <<>>
    THEN new \o (IF s = <<>> THEN <<>>
                 ELSE <<Head(s)>> \o str_replace(Tail(s), old, new))
    ELSE IF Len(s) < Len(old) THEN s
    ELSE IF SubSeq(s, 1, Len(old)) = old
         THEN new \o str_replace(SubSeq(s, Len(old) + 1, Len(s)), old, new)
    ELSE <<Head(s)>> \o str_replace(Tail(s), old, new)

\* bytes.decode(): an ASCII byte is its character, the byte 0xFF is in no
\* UTF-8 sequence (UnicodeDecodeError); the bodies hold no other bytes
utf8_decode(b) ==
    IF \E i \in 1..Len(b) : b[i] >= 128 THEN [ok |-> FALSE]
    ELSE [ok |-> TRUE, s |-> Decode(b)]

\* s.split(sep)[1]: the text between the first and the second sep;
\* IndexError when there is no sep
SecondPart(s, sep) ==
    LET p == Find(s, sep, 1) IN
    IF p > Len(s) THEN [ok |-> FALSE]
    ELSE [ok |-> TRUE, s |-> SubSeq(s, p + 1, Find(s, sep, p + 1) - 1)]

\* json.loads(base64.b64decode(token.split(".")[1]))["sub"] of
\* auth.split(" ")[1]
user_id(auth) ==
    LET bearer == SecondPart(auth, " ") IN
    IF ~bearer.ok THEN [ok |-> FALSE]
    ELSE LET payload == SecondPart(bearer.s, ".") IN
    IF ~payload.ok THEN [ok |-> FALSE]
    ELSE LET raw == b64decode(payload.s) IN
    IF ~raw.ok THEN [ok |-> FALSE]
    ELSE LET claims == json_loads(Decode(raw.b)) IN
    IF ~claims.ok \/ ~QHas(claims.v, <<"s","u","b">>) THEN [ok |-> FALSE]
    ELSE [ok |-> TRUE, s |-> QGet(claims.v, <<"s","u","b">>, <<>>)]

\* what urlopen does: it returns a response (kind "ok"), raises HTTPError
\* with the gateway's error response, or raises something else
GatewayReply(kind, status, body, ctype, session, www) ==
    [kind |-> kind, status |-> status, body |-> body, ContentType |-> ctype,
     McpSessionId |-> session, WWWAuthenticate |-> www]

NoReply == GatewayReply("none", 0, <<>>, NoValue, NoValue, NoValue)

GatewayReplies(url) ==
    LET base == gateway_base(url)
        bodies == {Encode(t) : t \in {<<>>, <<"{","}">>, base,
                                       <<"x">> \o base \o <<"y">> \o url}}
                  \cup {<<255>>, Encode(base) \o <<255>>}
        challenges == {NoValue, <<>>, <<"B"," ","r","=">> \o base \o <<"/","w">>}
    IN
    {GatewayReply("ok", 200, b, NoValue, sid, w) :
        b \in bodies, sid \in {NoValue, <<>>, <<"s","1">>}, w \in challenges}
    \cup {GatewayReply("ok", 202, <<>>, <<"t","/","e">>, NoValue, NoValue)}
    \cup {GatewayReply("HTTPError", 401, b, NoValue, NoValue, w) :
        b \in bodies, w \in challenges}
    \cup {GatewayReply("HTTPError", 500, b, NoValue, NoValue, NoValue) :
        b \in {<<>>, <<255>>}}
    \cup {GatewayReply("URLError", 0, <<>>, NoValue, NoValue, NoValue)}

\* the response dict proxy_to_gateway builds
Response(status, ctype, session, www, body) ==
    [statusCode |-> status, ContentType |-> ctype, McpSessionId |-> session,
     WWWAuthenticate |-> www, body |-> body]

APPLICATION_JSON == <<"a","p","p","l","i","c","a","t","i","o","n","/","j","s","o","n">>

\* json_response(502, {"error": {"code": -32603, "message": str(e)}})
BadGateway(e) == json_response(502, [code |-> -32603, message |-> e])

\* the header, rewritten when it is there and not empty
Rewritten(www, base, api_url) ==
    IF www \in {NoValue, <<>>} THEN NoValue ELSE str_replace(www, base, api_url)

\* proxy_to_gateway(event) when sign_request and urlopen do as signing and
\* reply say: [request, reply, response]
proxy_to_gateway(ev, url, auth_mode, signing, reply) ==
    LET method == IF ev.httpMethod # <<>> THEN ev.httpMethod
                  ELSE IF ev.http_method # NoValue THEN ev.http_method
                  ELSE <<"G","E","T">>
        raw == IF ev.isBase64Encoded /\ ev.body # <<>> THEN b64decode(ev.body)
               ELSE [ok |-> TRUE, b |-> Encode(ev.body)]
        uid == IF auth_mode = "IAM" /\ ev.authorization \notin {NoValue, <<>>}
               THEN user_id(ev.authorization) ELSE [ok |-> TRUE, s |-> NoValue]
        req == [method |-> method,
                url |-> url,
                data |-> IF method = <<"P","O","S","T">> /\ raw.b # <<>>
                         THEN raw.b ELSE <<>>,
                McpProtocolVersion |-> IF ev.mcp_protocol_version = <<>> THEN NoValue
                                       ELSE ev.mcp_protocol_version,
                McpSessionId |-> IF ev.mcp_session_id = <<>> THEN NoValue
                                 ELSE ev.mcp_session_id,
                UserId |-> uid.s,
                Authorization |-> IF auth_mode = "IAM" THEN signing
                                  ELSE IF ev.authorization = <<>> THEN NoValue
                                  ELSE ev.authorization]
        unsent(e) == [request |-> NoResult, reply |-> NoReply, response |-> e]
        sent(r) == [request |-> req, reply |-> reply, response |-> r]
        base == gateway_base(url)
        api_url == get_api_url(ev)
        text == utf8_decode(reply.body)
    IN
    \* base64.b64decode(body), before the try
    IF ~raw.ok THEN unsent(Raised("binascii.Error"))
    \* urllib.request.Request(target_url, ...): unknown url type
    ELSE IF ~Follows(url, 1, T.https) THEN unsent(BadGateway("ValueError"))
    ELSE IF ~uid.ok THEN unsent(BadGateway("IndexError, binascii.Error, ValueError or KeyError"))
    ELSE IF auth_mode = "IAM" /\ signing = "raises" THEN unsent(BadGateway("sign_request"))
    ELSE CASE reply.kind = "ok" ->
                IF ~text.ok THEN sent(BadGateway("UnicodeDecodeError"))
                ELSE sent(Response(reply.status,
                                   IF reply.ContentType = NoValue THEN APPLICATION_JSON
                                   ELSE reply.ContentType,
                                   IF reply.McpSessionId = <<>> THEN NoValue
                                   ELSE reply.McpSessionId,
                                   Rewritten(reply.WWWAuthenticate, base, api_url),
                                   text.s))
           [] reply.kind = "HTTPError" ->
                \* error = e.read().decode() is in the except clause
                IF ~text.ok THEN sent(Raised("UnicodeDecodeError"))
                ELSE sent(Response(reply.status, APPLICATION_JSON, NoValue,
                                   Rewritten(reply.WWWAuthenticate, base, api_url),
                                   str_replace(text.s, base, api_url)))
           [] reply.kind = "URLError" -> sent(BadGateway("URLError"))

\* a token whose payload names the user
BEARER == <<"B"," ","h",".">> \o b64encode(Encode(json_dumps(<<<<<<"s","u","b">>, <<"u">>>>>>)))

\* requests for /mcp
McpEvents ==
    LET Mcp(m, b, sid, a, src) ==
          [httpMethod |-> m[1], http_method |-> m[2],
           body |-> b[1], isBase64Encoded |-> b[2],
           mcp_protocol_version |-> sid, mcp_session_id |-> sid, authorization |-> a,
           host |-> src.host, Host |-> src.Host, domainName |-> src.domainName,
           stage |-> src.stage]
        POST == <<<<"P","O","S","T">>, NoValue>>
        Alb == CHOOSE x \in ApiSources : x.host # <<>>
    IN
    {Mcp(m, b, NoValue, a, src) :
        m \in {POST, <<<<>>, NoValue>>},
        b \in {<<<<>>, FALSE>>, <<<<"{","}">>, FALSE>>,
               <<b64encode(Encode(<<"{","}">>)), TRUE>>, <<<<"e","3","0">>, TRUE>>},
        a \in {NoValue, <<"B"," ","t">>, BEARER},
        src \in {x \in ApiSources : x.host # <<>> \/ x.stage = T.default}}
    \cup {Mcp(<<<<>>, <<"P","O","S","T">>>>, <<<<"{","}">>, FALSE>>, <<"s","0">>,
              BEARER, Alb),
          Mcp(POST, <<<<"{","}">>, FALSE>>, <<>>, <<>>, Alb)}

ProxyStart ==
    /\ GATEWAY_URL \in {GW_HOST \o MCP, GW_HOST, GW_HOST \o MCP \o <<"/">>, <<>>}
    /\ GATEWAY_AUTH \in {"None", "IAM"}
    /\ px_pc = "start"
    /\ proxy_event = NoResult
    /\ urlopen_request = NoResult
    /\ urlopen_reply = NoReply
    /\ proxy_response = NoResult

ProxyIdle ==
    /\ GATEWAY_URL = <<>>
    /\ GATEWAY_AUTH = "None"
    /\ px_pc = "idle"
    /\ proxy_event = NoResult
    /\ urlopen_request = NoResult
    /\ urlopen_reply = NoReply
    /\ proxy_response = NoResult

\* one invocation for /mcp
proxy ==
    /\ px_pc = "start"
    /\ \E ev \in McpEvents, reply \in GatewayReplies(GATEWAY_URL),
          signing \in {"signed", "raises"} :
          LET r == proxy_to_gateway(ev, GATEWAY_URL, GATEWAY_AUTH, signing, reply) IN
          /\ proxy_event' = ev
          /\ urlopen_request' = r.request
          /\ urlopen_reply' = r.reply
          /\ proxy_response' = r.response
    /\ px_pc' = "done"
    /\ UNCHANGED <<GATEWAY_URL, GATEWAY_AUTH>>
    /\ UNCHANGED <<intVars, cfnVars, oaVars, tokVars, sgVars>>

(***************************************************************************)
(* The Cognito pre-token-generation trigger:                               *)
(* pre_token_generation_lambda.py.  The event is one object that the       *)
(* handler changes in place.                                               *)
(***************************************************************************)
ADMIN_EMAIL == <<"v","s","c","o","d","e","-","a","d","m","i","n","@",
                 "e","x","a","m","p","l","e",".","c","o","m">>

\* d[k] = v
SetKey(d, k, v) ==
    IF HasKey(d, k)
    THEN Dict(SubSeq([i \in 1..Len(d.items) |->
                        IF d.items[i][1] = k THEN <<k, v>> ELSE d.items[i]],
                     1, Len(d.items)))
    ELSE Dict(Append(d.items, <<k, v>>))

\* v[path[1]][path[2]]..., Absent where a subscript fails
RECURSIVE GetPath(_, _)
GetPath(v, path) ==
    IF path = <<>> THEN v
    ELSE IF IsDict(v) /\ HasKey(v, Head(path))
         THEN GetPath(Get(v, Head(path), Absent), Tail(path))
         ELSE Absent

\* v with v[path[1]][path[2]]... replaced
RECURSIVE SetPath(_, _, _)
SetPath(v, path, new) ==
    IF path = <<>> THEN new
    ELSE SetKey(v, Head(path), SetPath(Get(v, Head(path), Absent), Tail(path), new))


\* the keys of event["response"] the handler reads and writes
KEY ==
    [ COD |-> "claimsOverrideDetails",
      CASOD |-> "claimsAndScopeOverrideDetails",
      ATG |-> "accessTokenGeneration",
      CTAOO |-> "claimsToAddOrOverride" ]

\* a try block that stops after the ID-token claims
StatementsIdTokenOnly(email, custom_tag) ==
    << [op |-> "init", path |-> <<"response">>, key |-> KEY.COD, orNone |-> TRUE],
       [op |-> "init", path |-> <<"response", KEY.COD>>, key |-> KEY.CTAOO, orNone |-> FALSE],
       [op |-> "set", path |-> <<"response", KEY.COD, KEY.CTAOO>>, key |-> "user_tag", v |-> custom_tag],
       [op |-> "set", path |-> <<"response", KEY.COD, KEY.CTAOO>>, key |-> "email", v |-> email] >>

\* the statements of the try block that change the event, in order:
\*   init: if key not in c (or c[key] is None): c[key] = {}
\*   set:  c[key] = value
\* where c is event[path...]
Statements(email, custom_tag) ==
    << [op |-> "init", path |-> <<"response">>, key |-> KEY.COD, orNone |-> TRUE],
       [op |-> "init", path |-> <<"response", KEY.COD>>, key |-> KEY.CTAOO, orNone |-> FALSE],
       [op |-> "set", path |-> <<"response", KEY.COD, KEY.CTAOO>>, key |-> "user_tag", v |-> custom_tag],
       [op |-> "set", path |-> <<"response", KEY.COD, KEY.CTAOO>>, key |-> "email", v |-> email],
       [op |-> "init", path |-> <<"response">>, key |-> KEY.CASOD, orNone |-> TRUE],
       [op |-> "init", path |-> <<"response", KEY.CASOD>>, key |-> KEY.ATG, orNone |-> FALSE],
       [op |-> "init", path |-> <<"response", KEY.CASOD, KEY.ATG>>, key |-> KEY.CTAOO, orNone |-> FALSE],
       [op |-> "set", path |-> <<"response", KEY.CASOD, KEY.ATG, KEY.CTAOO>>, key |-> "email", v |-> email],
       [op |-> "set", path |-> <<"response", KEY.CASOD, KEY.ATG, KEY.CTAOO>>, key |-> "user_tag", v |-> custom_tag] >>

\* runs the statements from the i-th on; a statement whose c is not a dict
\* raises (KeyError, TypeError) and leaves the event as it is by then
RECURSIVE Run(_, _, _)
Run(ev, stmts, i) ==
    IF i > Len(stmts) THEN [raised |-> FALSE, event |-> ev]
    ELSE LET st == stmts[i]
             c == GetPath(ev, st.path)
         IN  IF ~IsDict(c) THEN [raised |-> TRUE, event |-> ev]
             ELSE IF st.op = "set"
                  THEN Run(SetPath(ev, st.path, SetKey(c, st.key, st.v)), stmts, i + 1)
             ELSE IF ~HasKey(c, st.key) \/ (st.orNone /\ Get(c, st.key, Absent) = Null)
                  THEN Run(SetPath(ev, st.path, SetKey(c, st.key, EmptyDict)), stmts, i + 1)
             ELSE Run(ev, stmts, i + 1)

\* the body of the try block
try_block(ev) ==
    LET user_attributes == GetPath(ev, <<"request", "userAttributes">>) IN
    IF ~IsDict(user_attributes) THEN [raised |-> TRUE, event |-> ev]
    ELSE LET email == Get(user_attributes, "email", Str(<<>>))
             custom_tag == IF email = Str(ADMIN_EMAIL)
                           THEN Str(<<"a","d","m","i","n","_","u","s","e","r">>)
                           ELSE Str(<<"r","e","g","u","l","a","r","_","u","s","e","r">>)
         IN  Run(ev, Statements(email, custom_tag), 1)

\* a handler without the except clause
pre_token_generation_unguarded(ev) ==
    LET r == try_block(ev) IN
    [ret |-> IF r.raised THEN Raised("Exception") ELSE [kind |-> "return", value |-> r.event],
     event |-> r.event, logged |-> FALSE]

\* lambda_handler(event, context): what it returns, the event object
\* afterwards and whether the except clause logged an error
pre_token_generation_lambda(ev) ==
    LET r == try_block(ev) IN
    [ret |-> [kind |-> "return", value |-> r.event],
     event |-> r.event, logged |-> r.raised]

\* the events Cognito, or anything else, invokes the trigger with
TriggerEvents ==
    LET UserAttributes ==
          { Absent, Null, Str(<<"u">>), List(<<>>), EmptyDict,
            Dict(<< <<"email", Str(ADMIN_EMAIL)>> >>),
            Dict(<< <<"sub", Str(<<"1">>)>>, <<"email", Str(<<"u","@","x">>)>> >>),
            Dict(<< <<"email", Null>> >>) }
        TriggerRequests ==
          { Absent, Null, Str(<<"r">>), List(<<>>) }
          \cup { Dict(Opt("userAttributes", ua)) : ua \in UserAttributes }
        IdClaims ==
          { Absent, Null, Str(<<"c">>),
            Str(<<"c","l","a","i","m","s","T","o","A","d","d",
                  "O","r","O","v","e","r","r","i","d","e">>),
            Num(1), List(<<>>), EmptyDict,
            Dict(<< <<KEY.CTAOO, Null>> >>), Dict(<< <<KEY.CTAOO, Str(<<"c">>)>> >>),
            Dict(<< <<KEY.CTAOO, EmptyDict>> >>),
            Dict(<< <<"claimsToSuppress", List(<<>>)>>,
                    <<KEY.CTAOO, Dict(<< <<"user_tag", Str(<<"o","l","d">>)>>,
                                         <<"k", Str(<<"v">>)>> >>)>> >>) }
        AccessClaims ==
          { Absent, Null, Str(<<"c">>), Num(1), EmptyDict,
            Dict(<< <<KEY.ATG, Null>> >>), Dict(<< <<KEY.ATG, Str(<<"c">>)>> >>),
            Dict(<< <<KEY.ATG, EmptyDict>> >>),
            Dict(<< <<KEY.ATG, Dict(<< <<KEY.CTAOO, Null>> >>)>> >>),
            Dict(<< <<KEY.ATG, Dict(<< <<"scopesToAdd", List(<<>>)>>,
                                       <<KEY.CTAOO, Dict(<< <<"email", Str(<<"o">>)>> >>)>> >>)>> >>) }
        TriggerResponses ==
          { Absent, Null, Str(<<"r">>), List(<<>>) }
          \cup { Dict(Opt(KEY.COD, c) \o Opt(KEY.CASOD, a)) :
                   c \in IdClaims, a \in AccessClaims }
    IN
    { Null, Str(<<"e">>), List(<<>>) }
    \cup { Dict(<< <<"version", Str(<<"2">>)>> >> \o Opt("request", rq) \o Opt("response", rs)) :
             rq \in TriggerRequests, rs \in TriggerResponses }

TriggerStart ==
    /\ tok_input \in TriggerEvents
    /\ tok_event = tok_input
    /\ tok_pc = "start"
    /\ tok_result = NoResult
    /\ tok_logged = FALSE

TriggerIdle ==
    /\ tok_input = Null
    /\ tok_event = Null
    /\ tok_pc = "idle"
    /\ tok_result = NoResult
    /\ tok_logged = FALSE

\* one invocation of the trigger
pre_token_generation ==
    /\ tok_pc = "start"
    /\ LET r == pre_token_generation_lambda(tok_event) IN
          /\ tok_event' = r.event
          /\ tok_result' = r.ret
          /\ tok_logged' = r.logged
    /\ tok_pc' = "done"
    /\ UNCHANGED tok_input
    /\ UNCHANGED <<intVars, cfnVars, oaVars, sgVars, pxVars>>

TriggerNext == pre_token_generation

(***************************************************************************)
(* Fine-Grained-Access-Control/setup-gateway.py: setup_gateway() with the  *)
(* gateway it looks up, the answers of the control plane and of the        *)
(* starter toolkit chosen by the environment.                              *)
(***************************************************************************)
GATEWAY_NAME == "TestGWforPolicyEngine"

\* gateway ids: the one gateway_config.json names, the ones listed, the one
\* create_mcp_gateway makes
GW == [ configured |-> <<"g","w","-","1">>,
        placeholder |-> <<"<","g","a","t","e","w","a","y","-","i","d",">">>,
        created |-> <<"g","w","-","n","e","w">> ]

\* the length of the longest list_gateways answer
MaxListed == 2

\* the id of the i-th listed gateway
ListedId(i) == <<"g","w","-","l">> \o <<DIGIT_SEQ[i + 1]>>

\* a gateway as get_gateway / create_mcp_gateway describe it
Gateway(id, status) ==
    [ gatewayId |-> id, status |-> status,
      gatewayUrl |-> <<"h","t","t","p","s",":","/","/">> \o id,
      gatewayArn |-> <<"a","r","n",":">> \o id ]

\* status in ['READY', 'ACTIVE']
IsReady(status) == status \in {"READY", "ACTIVE"}

\* what get_gateway answers: a status, or it raises
GetGatewayOutcomes ==
    {Raised("ClientError")}
    \cup {[kind |-> "return", status |-> st] : st \in {"READY", "ACTIVE", "CREATING", "FAILED"}}

\* what list_gateways answers: up to MaxListed items, or it raises
ListGatewaysOutcomes ==
    LET Items(n) ==
          [1..n -> [name : {GATEWAY_NAME, "other"}, status : {"READY", "CREATING"}]]
    IN  {Raised("ClientError")}
        \cup UNION { { [kind |-> "return",
                         items |-> [i \in 1..n |->
                                      [name |-> f[i].name, status |-> f[i].status,
                                       gatewayId |-> ListedId(i)]]] :
                          f \in Items(n) } : n \in 0..MaxListed }

\* gateway_config.json: missing, not readable as JSON, or a JSON value
ConfigFiles ==
    LET GatewayIds == { Absent, Null, Num(1), Str(<<>>), Str(GW.placeholder),
                        Str(GW.configured) }
        ClientInfos == { Absent, Dict(<< <<"client_id", Str(<<"c">>)>> >>) }
    IN  { [kind |-> "missing"], [kind |-> "invalid"],
          [kind |-> "json", config |-> List(<<>>)] }
        \cup { [kind |-> "json",
                config |-> Dict(Opt("gateway_id", id) \o Opt("client_info", ci)
                                \o << <<"region", Str(<<"r">>)>> >>)] :
                 id \in GatewayIds, ci \in ClientInfos }

\* load_existing_config(): the config, None, or the exception it lets escape
\* (only JSONDecodeError and IOError are caught)
load_existing_config(file) ==
    IF file.kind \in {"missing", "invalid"} THEN [kind |-> "return", value |-> Null]
    ELSE LET config == file.config IN
         IF ~IsDict(config) THEN Raised("AttributeError")
         ELSE LET gateway_id == Get(config, "gateway_id", Null) IN
              IF ~Truthy(gateway_id) THEN [kind |-> "return", value |-> Null]
              ELSE IF gateway_id.t # "str" THEN Raised("TypeError")
              ELSE IF \A i \in 1..Len(gateway_id.s) : gateway_id.s[i] # "<"
                   THEN [kind |-> "return", value |-> config]
                   ELSE [kind |-> "return", value |-> Null]

\* a lookup that takes the first listed gateway whatever its name
FirstListed(items, gateway_name) == IF items = <<>> THEN 0 ELSE 1

\* the first listed item with the name and a ready status, 0 when none
FirstNamed(items, gateway_name) ==
    LET Hits == { i \in 1..Len(items) :
                    items[i].name = gateway_name /\ IsReady(items[i].status) }
    IN  IF Hits = {} THEN 0 ELSE CHOOSE i \in Hits : \A j \in Hits : i <= j

\* get_existing_gateway(region, gateway_id, gateway_name) when get_gateway
\* answers got and list_gateways answers listed; <<>> is no id, "" no name.
\* Returns the gateway (None when not found) and the calls it made.
get_existing_gateway(gateway_id, gateway_name, got, listed) ==
    LET Call(c, a, o) == [call |-> c, arg |-> a, out |-> o]
        byId ==
          IF gateway_id = <<>> THEN [gateway |-> Null, calls |-> <<>>]
          ELSE [gateway |-> IF got.kind = "return" /\ IsReady(got.status)
                            THEN Gateway(gateway_id, got.status) ELSE Null,
                calls |-> <<Call("get_gateway", gateway_id, got)>>]
        hit == IF listed.kind = "return" THEN FirstNamed(listed.items, gateway_name) ELSE 0
        byName ==
          IF gateway_name = "" THEN [gateway |-> Null, calls |-> <<>>]
          ELSE IF hit = 0
               THEN [gateway |-> Null, calls |-> <<Call("list_gateways", <<>>, listed)>>]
          ELSE [gateway |-> IF got.kind = "return"
                            THEN Gateway(listed.items[hit].gatewayId, got.status) ELSE Null,
                calls |-> <<Call("list_gateways", <<>>, listed),
                            Call("get_gateway", listed.items[hit].gatewayId, got)>>]
    IN  IF byId.gateway # Null THEN byId
        ELSE [gateway |-> byName.gateway, calls |-> byId.calls \o byName.calls]

SetupStart ==
    /\ config_file \in ConfigFiles
    /\ sg_pc = "load"
    /\ existing_config = Null
    /\ gateway = Null
    /\ cognito_response = Null
    /\ sg_calls = <<>>
    /\ saved_config = Null

SetupIdle ==
    /\ config_file = [kind |-> "missing"]
    /\ sg_pc = "idle"
    /\ existing_config = Null
    /\ gateway = Null
    /\ cognito_response = Null
    /\ sg_calls = <<>>
    /\ saved_config = Null

\* existing_config = load_existing_config()
load_config ==
    /\ sg_pc = "load"
    /\ LET r == load_existing_config(config_file) IN
         IF r.kind = "raise"
         THEN sg_pc' = "raised" /\ UNCHANGED existing_config
         ELSE sg_pc' = "by_id" /\ existing_config' = r.value
    /\ UNCHANGED <<config_file, gateway, cognito_response, sg_calls, saved_config>>
    /\ UNCHANGED <<intVars, cfnVars, oaVars, tokVars, pxVars>>

\* if existing_config: gateway = get_existing_gateway(region, gateway_id=...)
reuse_configured ==
    /\ sg_pc = "by_id"
    /\ IF Truthy(existing_config)
       THEN \E got \in GetGatewayOutcomes :
              LET gateway_id == Get(existing_config, "gateway_id", Null).s
                  r == get_existing_gateway(gateway_id, "", got, Raised("unused"))
                  client_info == Get(existing_config, "client_info", Null)
              IN  /\ gateway' = r.gateway
                  /\ sg_calls' = sg_calls \o r.calls
                  /\ cognito_response' =
                       IF r.gateway # Null /\ Truthy(client_info)
                       THEN [client_info |-> client_info] ELSE Null
       ELSE UNCHANGED <<gateway, sg_calls, cognito_response>>
    /\ sg_pc' = "by_name"
    /\ UNCHANGED <<config_file, existing_config, saved_config>>
    /\ UNCHANGED <<intVars, cfnVars, oaVars, tokVars, pxVars>>

\* if not gateway: gateway = get_existing_gateway(region, gateway_name=...)
reuse_named ==
    /\ sg_pc = "by_name"
    /\ IF gateway = Null
       THEN \E listed \in ListGatewaysOutcomes, got \in GetGatewayOutcomes :
              LET r == get_existing_gateway(<<>>, GATEWAY_NAME, got, listed) IN
              /\ gateway' = r.gateway
              /\ sg_calls' = sg_calls \o r.calls
       ELSE UNCHANGED <<gateway, sg_calls>>
    /\ sg_pc' = "input"
    /\ UNCHANGED <<config_file, existing_config, cognito_response, saved_config>>
    /\ UNCHANGED <<intVars, cfnVars, oaVars, tokVars, pxVars>>

\* lambda_arn = input(...).strip(); if not lambda_arn: return None
read_inputs ==
    /\ sg_pc = "input"
    /\ \E lambda_arn \in {"", "arn:lambda"} :
         sg_pc' = IF lambda_arn = "" THEN "returned None" ELSE "authorizer"
    /\ UNCHANGED <<config_file, existing_config, gateway, cognito_response,
                   sg_calls, saved_config>>
    /\ UNCHANGED <<intVars, cfnVars, oaVars, tokVars, pxVars>>

\* if not cognito_response: client.create_oauth_authorizer_with_cognito(...)
create_authorizer ==
    /\ sg_pc = "authorizer"
    /\ IF cognito_response = Null
       THEN \E ok \in BOOLEAN :
              /\ sg_calls' = Append(sg_calls,
                   [call |-> "create_oauth_authorizer_with_cognito", arg |-> <<>>,
                    out |-> IF ok THEN [kind |-> "return"] ELSE Raised("Exception")])
              /\ IF ok
                 THEN /\ cognito_response' =
                           [client_info |-> Dict(<< <<"client_id", Str(<<"n">>)>> >>),
                            authorizer_config |-> "customJWTAuthorizer"]
                      /\ sg_pc' = "create"
                 ELSE sg_pc' = "raised" /\ UNCHANGED cognito_response
       ELSE sg_pc' = "create" /\ UNCHANGED <<sg_calls, cognito_response>>
    /\ UNCHANGED <<config_file, existing_config, gateway, saved_config>>
    /\ UNCHANGED <<intVars, cfnVars, oaVars, tokVars, pxVars>>

\* if not gateway: gateway = client.create_mcp_gateway(...)
create_gateway ==
    /\ sg_pc = "create"
    /\ IF gateway = Null
       THEN \E ok \in BOOLEAN :
              /\ sg_calls' = Append(sg_calls,
                   [call |-> "create_mcp_gateway", arg |-> GATEWAY_NAME,
                    out |-> IF ok THEN [kind |-> "return"] ELSE Raised("Exception")])
              /\ IF ok
                 THEN gateway' = Gateway(GW.created, "CREATING") /\ sg_pc' = "target"
                 ELSE sg_pc' = "raised" /\ UNCHANGED gateway
       ELSE sg_pc' = "target" /\ UNCHANGED <<sg_calls, gateway>>
    /\ UNCHANGED <<config_file, existing_config, cognito_response, saved_config>>
    /\ UNCHANGED <<intVars, cfnVars, oaVars, tokVars, pxVars>>

\* client.create_mcp_gateway_target(...), an existing target is reused, and
\* json.dump(config, f)
add_target_and_save ==
    /\ sg_pc = "target"
    /\ \E out \in {"created", "ConflictException", "Exception"} :
         /\ sg_calls' = Append(sg_calls,
              [call |-> "create_mcp_gateway_target", arg |-> gateway.gatewayId,
               out |-> IF out = "created" THEN [kind |-> "return"] ELSE Raised(out)])
         /\ IF out = "Exception"
            THEN sg_pc' = "raised" /\ UNCHANGED saved_config
            ELSE /\ saved_config' =
                      [gateway_url |-> gateway.gatewayUrl,
                       gateway_id |-> gateway.gatewayId,
                       gateway_arn |-> gateway.gatewayArn,
                       region |-> "us-east-1",
                       client_info |-> cognito_response.client_info]
                 /\ sg_pc' = "done"
    /\ UNCHANGED <<config_file, existing_config, gateway, cognito_response>>
    /\ UNCHANGED <<intVars, cfnVars, oaVars, tokVars, pxVars>>

SetupNext ==
    \/ load_config
    \/ reuse_configured
    \/ reuse_named
    \/ read_inputs
    \/ create_authorizer
    \/ create_gateway
    \/ add_target_and_save

(***************************************************************************)
(* The enterprise demo's interceptor (interceptor/interceptor.py), which   *)
(* serves REQUEST and RESPONSE events; every exception is logged and       *)
(* raised again.                                                           *)
(***************************************************************************)
\* what client.apply_guardrail does when called
EntGuardrailOutcomes ==
    LET Action(a) == <<"action", Str(a)>>
        INTERVENED == <<"G","U","A","R","D","R","A","I","L","_",
                        "I","N","T","E","R","V","E","N","E","D">>
        masked == Dict(<< <<"text", Str(<<"*">>)>> >>)
    IN  {[raised |-> TRUE, response |-> EmptyDict]}
        \cup {[raised |-> FALSE, response |-> r] :
                r \in { EmptyDict, Dict(<<Action(<<"N","O","N","E">>)>>),
                        Dict(<<Action(INTERVENED), <<"outputs", List(<<masked>>)>> >>),
                        Dict(<<Action(INTERVENED)>>),
                        Dict(<<Action(INTERVENED), <<"outputs", List(<<>>)>> >>) }}

\* v[0].get("text", {}): Absent when the subscript or the .get raises
FirstText(v) ==
    IF v.t = "list" /\ v.l # <<>> /\ IsDict(v.l[1])
    THEN Get(v.l[1], "text", EmptyDict) ELSE Absent

\* lambda_handler(event, context) of interceptor.py: [ret, calls]
ENT_handle(ev, guardrail_id, o) ==
    LET raise(e) == [ret |-> Raised(e), calls |-> <<>>]
        \* apply_guardrail(text) and the test of its action; a text that is
        \* not a string fails botocore's parameter validation
        Guard(text) ==
          LET eff == IF text.t = "str" THEN o ELSE [raised |-> TRUE, response |-> EmptyDict]
          IN  [eff |-> eff, calls |-> <<[query |-> text, outcome |-> eff]>>,
               intervened |-> /\ ~eff.raised
                              /\ Get(eff.response, "action", Null)
                                    = Str(<<"G","U","A","R","D","R","A","I","L","_",
                                            "I","N","T","E","R","V","E","N","E","D">>),
               text |-> FirstText(Get(eff.response, "outputs", List(<<EmptyDict>>)))]
    IN
    IF ~IsDict(ev) THEN raise("AttributeError")
    ELSE LET mcp_data == Get(ev, "mcp", EmptyDict) IN
    IF ~IsDict(mcp_data) THEN raise("TypeError")
    ELSE LET gateway_request == Get(mcp_data, "gatewayRequest", EmptyDict) IN
    IF ~IsDict(gateway_request) THEN raise("AttributeError")
    ELSE LET request_body == Get(gateway_request, "body", EmptyDict) IN
    IF Get(mcp_data, "gatewayResponse", Null) # Null
    THEN \* a RESPONSE interceptor
         LET gateway_response == Get(mcp_data, "gatewayResponse", Null) IN
         IF ~IsDict(gateway_response) THEN raise("AttributeError")
         ELSE LET body == Get(gateway_response, "body", EmptyDict)
                  response_body == IF Truthy(body) THEN body ELSE EmptyDict
              IN
         IF Truthy(request_body) /\ ~IsDict(request_body) THEN raise("AttributeError")
         ELSE LET mcp_method == IF Truthy(request_body)
                                THEN Get(request_body, "method", Str(UNKNOWN_ID))
                                ELSE Null
                  result_ == IF IsDict(response_body)
                             THEN Get(response_body, "result", EmptyDict) ELSE Null
                  content == IF ~Truthy(response_body) THEN Null
                             ELSE IF ~IsDict(result_) THEN Absent
                             ELSE FirstText(Get(result_, "content", List(<<>>)))
              IN
         \* .get on a value that is not a dict (AttributeError), [0] on an
         \* empty list (IndexError), on a dict (KeyError), on None (TypeError)
         IF content = Absent THEN raise("Exception")
         ELSE IF mcp_method = Str(TOOLS_CALL) /\ Truthy(response_body) /\ guardrail_id # ""
         THEN LET g == Guard(content) IN
              IF g.eff.raised THEN [ret |-> Raised("ClientError"), calls |-> g.calls]
              ELSE IF g.intervened
              THEN IF g.text = Absent THEN [ret |-> Raised("IndexError"), calls |-> g.calls]
                   ELSE LET old == Get(result_, "content", List(<<>>)).l
                            new == List(<<Dict(<< <<"type", Str(<<"t","e","x","t">>)>>,
                                                  <<"text", g.text>> >>)>> \o Tail(old))
                        IN  [ret |-> [kind |-> "transformedGatewayResponse",
                                      body |-> SetKey(response_body, "result",
                                                      SetKey(result_, "content", new)),
                                      statusCode |-> Num(403)],
                             calls |-> g.calls]
              ELSE [ret |-> [kind |-> "transformedGatewayResponse", body |-> response_body,
                             statusCode |-> Get(gateway_response, "statusCode", Num(200))],
                    calls |-> g.calls]
         ELSE [ret |-> [kind |-> "transformedGatewayResponse", body |-> response_body,
                        statusCode |-> Get(gateway_response, "statusCode", Num(200))],
               calls |-> <<>>]
    ELSE \* a REQUEST interceptor
         IF ~IsDict(request_body) THEN raise("AttributeError")
         ELSE IF /\ Get(request_body, "method", Str(UNKNOWN_ID)) = Str(TOOLS_CALL)
                 /\ guardrail_id # ""
         THEN \* the text is json.dumps(request_body), a string
              LET g == Guard([t |-> "str", dumps |-> request_body]) IN
              IF g.eff.raised THEN [ret |-> Raised("ClientError"), calls |-> g.calls]
              ELSE IF g.intervened
              THEN IF g.text = Absent THEN [ret |-> Raised("IndexError"), calls |-> g.calls]
                   ELSE [ret |-> [kind |-> "transformedGatewayRequest", body |-> g.text],
                         calls |-> g.calls]
              ELSE [ret |-> [kind |-> "transformedGatewayRequest", body |-> request_body],
                    calls |-> g.calls]
         ELSE [ret |-> [kind |-> "transformedGatewayRequest", body |-> request_body],
               calls |-> <<>>]

\* the REQUEST and RESPONSE events the gateway, or anything else, sends
EntEvents ==
    LET Text(s) == Dict(<< <<"type", Str(<<"t","e","x","t">>)>>, <<"text", Str(s)>> >>)
        Result(r) == Dict(<< <<"jsonrpc", Str(<<"2",".","0">>)>>, <<"result", r>> >>)
        RequestBodies ==
          { Absent, Null, EmptyDict, Str(<<"b">>),
            Dict(<< <<"id", Num(1)>> >>),
            Dict(<< <<"method", Str(TOOLS_LIST)>>, <<"id", Num(1)>> >>),
            Dict(<< <<"method", Str(TOOLS_CALL)>>, <<"id", Num(1)>> >>) }
        ResponseBodies ==
          { Absent, Null, EmptyDict, Str(<<"b">>), List(<<Num(1)>>),
            Result(Null),
            Result(Dict(<< <<"tools", List(<<>>)>> >>)),
            Result(Dict(<< <<"content", List(<<>>)>> >>)),
            Result(Dict(<< <<"content", Str(<<"c">>)>> >>)),
            Result(Dict(<< <<"content", List(<<Dict(<< <<"type", Str(<<"i">>)>> >>)>>)>> >>)),
            Result(Dict(<< <<"content", List(<<Text(<<"h","i">>)>>)>> >>)),
            Result(Dict(<< <<"isError", Num(0)>>,
                           <<"content", List(<<Text(<<"h","i">>), Text(<<"y">>)>>)>> >>)),
            Dict(<< <<"error", Dict(<< <<"code", Num(1)>> >>)>> >>) }
        GatewayRequests ==
          {Absent, Null} \cup {Dict(Opt("body", b)) : b \in RequestBodies}
        GatewayResponses ==
          {Absent, Null, Str(<<"r">>)}
          \cup {Dict(Opt("body", b) \o Opt("statusCode", c)) :
                  b \in ResponseBodies, c \in {Absent, Num(200), Num(500)}}
    IN  {Null, EmptyDict, Dict(<< <<"mcp", Null>> >>)}
        \cup {Dict(<< <<"mcp", Dict(Opt("gatewayRequest", rq) \o Opt("gatewayResponse", rs))>> >>) :
                rq \in GatewayRequests, rs \in GatewayResponses}

EntStart ==
    /\ event \in EntEvents
    /\ GUARDRAIL_ID \in {"", "gr-1"}
    /\ handler = "none"
    /\ result = NoResult
    /\ guardrailCalls = <<>>
    /\ scanned = 0

\* one invocation of the enterprise interceptor's lambda_handler
ENT_lambda_handler ==
    /\ handler = "none"
    /\ \E o \in EntGuardrailOutcomes :
          LET r == ENT_handle(event, GUARDRAIL_ID, o) IN
          /\ result' = r.ret
          /\ guardrailCalls' = r.calls
    /\ handler' = "enterprise"
    /\ UNCHANGED <<event, GUARDRAIL_ID, scanned>>
    /\ UNCHANGED <<cfnVars, oaVars, tokVars, sgVars, pxVars>>

(***************************************************************************)
(* Properties of the OAuth proxy.                                          *)
(***************************************************************************)
OriginalRedirectUri == QGet(authorize_event.queryStringParameters, T.redirect_uri, <<>>)
OriginalState == QGet(authorize_event.queryStringParameters, T.state, <<>>)

\* /authorize was given a redirect_uri, and the /callback that followed
\* carries a code and the state /authorize produced, as sent or still
\* percent-encoded, and no error
RoundTrip ==
    /\ oa_pc = "called back"
    /\ OriginalRedirectUri # <<>>
    /\ ~QHas(callback_event.queryStringParameters, T.error)
    /\ QGet(callback_event.queryStringParameters, T.state, <<>>)
         \in {StateSent(authorize_response), quote_plus(StateSent(authorize_response))}

\* the callback answered 302 to base?code=<the code received>&state=<state>
ForwardsTo(base, state) ==
    /\ callback_response.statusCode = 302
    /\ LET loc == callback_response.Location IN
       /\ Follows(loc, 1, base \o <<"?">>)
       /\ parse_qsl(SubSeq(loc, Len(base) + 2, Len(loc)), TRUE)
            = << <<T.code, QGet(callback_event.queryStringParameters, T.code, <<>>)>>,
                 <<T.state, state>> >>

\* C8 (as stated): the /callback that carries the state produced by
\* /authorize and a code answers 302 to the original redirect_uri with
\* code = the code received and state = the original state.
C8_StateRoundTrip ==
    RoundTrip => ForwardsTo(OriginalRedirectUri, OriginalState)

\* C8 (amended): the /callback that carries the state produced by
\* /authorize and a code answers 302 to the percent-decoded original
\* redirect_uri with code = the code received and state = the
\* percent-decoded original state: handle_authorize stores
\* unquote(redirect_uri) and unquote(state) in the compound state.
C8_StateRoundTripDecoded ==
    RoundTrip => ForwardsTo(unquote(OriginalRedirectUri), unquote(OriginalState))

\* C8 witness: a round trip of a state and a redirect_uri that hold
\* percent escapes, with the compound state coming back percent-encoded
C8_Witness ==
    /\ RoundTrip
    /\ unquote(OriginalState) # OriginalState
    /\ unquote(OriginalRedirectUri) # OriginalRedirectUri
    /\ QGet(callback_event.queryStringParameters, T.state, <<>>)
         # StateSent(authorize_response)
    /\ callback_response.statusCode = 302

\* the body of the token request as handle_token reads it
TokenBody ==
    IF token_event.isBase64Encoded
    THEN Decode(b64decode(token_event.body).b) ELSE token_event.body

\* what /authorize and /token send to Cognito, given what the caller sent;
\* supplied(params) tells whether the caller supplied a redirect_uri
CognitoRequestsRewritten(supplied(_)) ==
    /\ oa_pc \in {"authorized", "called back"} =>
         LET given == authorize_event.queryStringParameters
             loc == authorize_response.Location
             sent == QueryOf(loc)
         IN  /\ authorize_response.statusCode = 302
             /\ Follows(loc, 1, RStrip(COGNITO_DOMAIN, "/") \o T.authorize \o <<"?">>)
             /\ \A i \in 1..Len(sent) : sent[i][1] = T.client_id => sent[i][2] = CLIENT_ID
             /\ QHas(sent, T.client_id)
             /\ supplied(given) =>
                  /\ QGet(sent, T.redirect_uri, NoValue) = get_api_url(authorize_event) \o T.callback
                  /\ Cardinality({i \in 1..Len(sent) : sent[i][1] = T.redirect_uri}) = 1
             /\ ~QHas(sent, T.resource)
    /\ (oa_pc = "token" /\ token_request # NoResult) =>
         LET given == parse_qsl(TokenBody, TRUE)
             sent == parse_qsl(token_request.data, TRUE)
         IN  /\ token_request.url = RStrip(COGNITO_DOMAIN, "/") \o T.token
             /\ \A i \in 1..Len(sent) : sent[i][1] = T.client_id => sent[i][2] = CLIENT_ID
             /\ QHas(sent, T.client_id)
             /\ supplied(given) =>
                  /\ QGet(sent, T.redirect_uri, NoValue) = get_api_url(token_event) \o T.callback
                  /\ Cardinality({i \in 1..Len(sent) : sent[i][1] = T.redirect_uri}) = 1
             /\ IF CLIENT_SECRET # <<>>
                THEN QGet(sent, T.client_secret, NoValue) = CLIENT_SECRET
                ELSE QGet(sent, T.client_secret, NoValue) = QGet(given, T.client_secret, NoValue)

SuppliedRedirectUri(params) == QHas(params, T.redirect_uri)
SuppliedNonEmptyRedirectUri(params) == QGet(params, T.redirect_uri, <<>>) # <<>>

\* C9 (as stated): the 302 of /authorize and the POST of /token carry
\* client_id = CLIENT_ID whatever the caller sent and, whenever the caller
\* supplied a redirect_uri, redirect_uri = <proxy api url>/callback;
\* /authorize forwards no resource parameter; /token adds client_secret
\* exactly when CLIENT_SECRET is configured.
C9_CognitoRequests == CognitoRequestsRewritten(SuppliedRedirectUri)

\* C9 (amended): as C9, with the redirect_uri rewritten whenever the caller
\* supplied a non-empty redirect_uri: /authorize rewrites it only
\* "if original_redirect_uri:", /token drops parameters with blank values.
C9_CognitoRequestsNonEmpty == CognitoRequestsRewritten(SuppliedNonEmptyRedirectUri)

\* C9 witness: a token request with the caller's own client_id,
\* client_secret and redirect_uri went to Cognito with a configured secret
C9_Witness ==
    /\ oa_pc = "token"
    /\ token_request # NoResult
    /\ CLIENT_SECRET # <<>>
    /\ LET given == parse_qsl(TokenBody, TRUE) IN
       /\ QGet(given, T.client_id, CLIENT_ID) # CLIENT_ID
       /\ QGet(given, T.client_secret, CLIENT_SECRET) # CLIENT_SECRET
       /\ QGet(given, T.redirect_uri, <<>>) # <<>>

(***************************************************************************)
(* Properties of the pre-token-generation trigger.                         *)
(***************************************************************************)
\* C10: whatever the event, with request, userAttributes or response
\* missing or malformed, the trigger does not raise and returns the event
\* object it was given; the request in it is as it was.
C10_TriggerNeverFails ==
    tok_pc = "done" =>
        /\ tok_result.kind = "return"
        /\ tok_result.value = tok_event
        /\ GetPath(tok_event, <<"request">>) = GetPath(tok_input, <<"request">>)

\* C10 witness: the try block raised after it had changed the event, the
\* except clause logged it and the event was returned
C10_Witness ==
    /\ tok_pc = "done"
    /\ tok_logged
    /\ tok_event # tok_input
    /\ tok_result.kind = "return"

(***************************************************************************)
(* Properties of the pre-token-generation trigger's claims.                *)
(***************************************************************************)
IdMap(ev) == GetPath(ev, <<"response", KEY.COD, KEY.CTAOO>>)
AccessMap(ev) == GetPath(ev, <<"response", KEY.CASOD, KEY.ATG, KEY.CTAOO>>)
UserAttributesOf(ev) == GetPath(ev, <<"request", "userAttributes">>)

\* every entry of old under a key other than user_tag and email is in new
KeptOthers(old, new) ==
    IsDict(old) =>
        \A i \in 1..Len(old.items) :
            old.items[i][1] \notin {"user_tag", "email"}
                => Get(new, old.items[i][1], Absent) = old.items[i][2]

\* the returned event carries email and user_tag in both claim maps
ClaimsAdded ==
    LET email == Get(UserAttributesOf(tok_input), "email", Str(<<>>))
        user_tag == IF email = Str(<<"v","s","c","o","d","e","-","a","d","m","i","n","@",
                                     "e","x","a","m","p","l","e",".","c","o","m">>)
                    THEN Str(<<"a","d","m","i","n","_","u","s","e","r">>)
                    ELSE Str(<<"r","e","g","u","l","a","r","_","u","s","e","r">>)
        Holds(old, new) ==
            /\ IsDict(new)
            /\ Get(new, "email", Absent) = email
            /\ Get(new, "user_tag", Absent) = user_tag
            /\ KeptOthers(old, new)
    IN  /\ tok_result = [kind |-> "return", value |-> tok_event]
        /\ Holds(IdMap(tok_input), IdMap(tok_event))
        /\ Holds(AccessMap(tok_input), AccessMap(tok_event))

\* the event has a userAttributes map and a response map
HasAttributesAndResponse ==
    /\ tok_pc = "done"
    /\ IsDict(tok_input)
    /\ IsDict(UserAttributesOf(tok_input))
    /\ IsDict(Get(tok_input, "response", Absent))

\* C11 (as stated): for an event with request.userAttributes and a response
\* dict, the returned event has email and user_tag (admin_user iff the email
\* is the admin's) in the ID-token and the access-token claim maps, and the
\* maps keep their other entries
C11_ClaimsInBothTokens == HasAttributesAndResponse => ClaimsAdded

\* the override objects of the response have the shape the handler expects:
\* claimsOverrideDetails and claimsAndScopeOverrideDetails absent, null or a
\* dict; accessTokenGeneration and claimsToAddOrOverride absent or a dict
OverridesWellShaped ==
    LET AbsentOrDict(v) == v = Absent \/ IsDict(v)
        rs == Get(tok_input, "response", Absent)
        cod == Get(rs, KEY.COD, Absent)
        casod == Get(rs, KEY.CASOD, Absent)
    IN  /\ \/ cod \in {Absent, Null}
           \/ IsDict(cod) /\ AbsentOrDict(Get(cod, KEY.CTAOO, Absent))
        /\ \/ casod \in {Absent, Null}
           \/ /\ IsDict(casod)
              /\ LET atg == Get(casod, KEY.ATG, Absent) IN
                    \/ atg = Absent
                    \/ IsDict(atg) /\ AbsentOrDict(Get(atg, KEY.CTAOO, Absent))

\* C11 (amended): the same, for a response whose override objects are
\* well shaped
C11_ClaimsInBothTokensWellShaped ==
    (HasAttributesAndResponse /\ OverridesWellShaped) => ClaimsAdded

\* C11 witness: the admin's event, whose ID-token map already held another
\* entry, came back with the claims added
C11_Witness ==
    /\ HasAttributesAndResponse
    /\ OverridesWellShaped
    /\ ~tok_logged
    /\ Get(UserAttributesOf(tok_input), "email", Absent) = Str(ADMIN_EMAIL)
    /\ IsDict(IdMap(tok_input))
    /\ HasKey(IdMap(tok_input), "k")
    /\ Get(IdMap(tok_event), "user_tag", Absent)
          = Str(<<"a","d","m","i","n","_","u","s","e","r">>)

(***************************************************************************)
(* Properties of setup-gateway.py.                                         *)
(***************************************************************************)
SetupCalled(c) == \E i \in 1..Len(sg_calls) : sg_calls[i].call = c

\* gateway_config.json holds a gateway_id that is a string, not empty and
\* not a '<...>' placeholder
HoldsGatewayId ==
    /\ config_file.kind = "json"
    /\ IsDict(config_file.config)
    /\ LET id == Get(config_file.config, "gateway_id", Null) IN
         /\ id.t = "str"
         /\ id.s # <<>>
         /\ ~(Head(id.s) = "<" /\ id.s[Len(id.s)] = ">")

\* get_gateway answered READY or ACTIVE for the id the file holds
ConfiguredExists ==
    /\ HoldsGatewayId
    /\ \E i \in 1..Len(sg_calls) :
         /\ sg_calls[i].call = "get_gateway"
         /\ sg_calls[i].arg = Get(config_file.config, "gateway_id", Null).s
         /\ sg_calls[i].out.kind = "return"
         /\ sg_calls[i].out.status \in {"READY", "ACTIVE"}

\* the ids of the listed gateways named TestGWforPolicyEngine with status
\* READY or ACTIVE, in the order of the listing
NamedListed ==
    LET Lists == { k \in 1..Len(sg_calls) :
                     sg_calls[k].call = "list_gateways" /\ sg_calls[k].out.kind = "return" }
        items == IF Lists = {} THEN <<>> ELSE sg_calls[CHOOSE k \in Lists : TRUE].out.items
        Ready(it) == it.name = "TestGWforPolicyEngine" /\ it.status \in {"READY", "ACTIVE"}
    IN  SelectSeq(items, Ready)

\* no gateway is created and a configuration that is written names id
Reuses(id) ==
    /\ ~SetupCalled("create_mcp_gateway")
    /\ saved_config # Null =>
         /\ saved_config.gateway_id = id
         /\ saved_config.gateway_url = <<"h","t","t","p","s",":","/","/">> \o id

DetailsRaised ==
    \E i \in 2..Len(sg_calls) :
        /\ sg_calls[i].call = "get_gateway"
        /\ sg_calls[i - 1].call = "list_gateways"
        /\ sg_calls[i].out.kind = "raise"

EntRequestBody == GetPath(event, <<"mcp", "gatewayRequest", "body">>)
EntResponse == GetPath(event, <<"mcp", "gatewayResponse">>)

\* a RESPONSE event: a gateway response object whose body is an object, null
\* or missing, for a request whose body is an object
IsResponseEvent ==
    /\ handler = "enterprise"
    /\ IsDict(EntResponse)
    /\ Get(EntResponse, "body", Null).t \in {"dict", "null"}
    /\ IsDict(EntRequestBody)

\* the guardrail was asked and answered without intervening
DidNotIntervene ==
    /\ guardrailCalls # <<>>
    /\ ~guardrailCalls[1].outcome.raised
    /\ Get(guardrailCalls[1].outcome.response, "action", Null)
          # Str(<<"G","U","A","R","D","R","A","I","L","_",
                  "I","N","T","E","R","V","E","N","E","D">>)

\* C13: a RESPONSE event whose request method is not tools/call, or for which
\* the guardrail is not configured or does not intervene, is answered with a
\* transformedGatewayResponse that carries the gateway response's body ({}
\* when missing or null) and statusCode (200 when missing), whatever the
\* shape of the body
C13_ResponsePassedThrough ==
    ( /\ IsResponseEvent
      /\ \/ Get(EntRequestBody, "method", Null) # Str(TOOLS_CALL)
         \/ GUARDRAIL_ID = ""
         \/ DidNotIntervene )
    => result = [kind |-> "transformedGatewayResponse",
                 body |-> IF Get(EntResponse, "body", Null) = Null
                          THEN EmptyDict ELSE Get(EntResponse, "body", Null),
                 statusCode |-> Get(EntResponse, "statusCode", Num(200))]

\* an exception left proxy_to_gateway
ProxyRaised == "kind" \in DOMAIN proxy_response

\* 502 with a JSON-RPC error of code -32603
IsBadGateway ==
    /\ "error" \in DOMAIN proxy_response
    /\ proxy_response.statusCode = 502
    /\ proxy_response.error.code = -32603

\* the gateway's WWW-Authenticate with the gateway base URL replaced by the
\* proxy's URL, when the gateway sent one
ChallengeRewritten ==
    proxy_response.WWWAuthenticate =
        IF urlopen_reply.WWWAuthenticate \in {NoValue, <<>>} THEN NoValue
        ELSE str_replace(urlopen_reply.WWWAuthenticate, gateway_base(GATEWAY_URL),
                         get_api_url(proxy_event))

\* C17: proxy_to_gateway turns every failure of the gateway call into an
\* HTTP response instead of raising: on an HTTPError it returns the
\* gateway's status code with every occurrence of the gateway base URL
\* replaced by the proxy's URL in the body and in WWW-Authenticate; on any
\* other exception it returns 502 with a JSON-RPC error of code -32603; on
\* success it returns the gateway's status and body with WWW-Authenticate
\* rewritten the same way and Mcp-Session-Id forwarded when present.
C17_FailuresBecomeResponses ==
    (px_pc = "done" /\ urlopen_reply.kind # "none") =>
        LET text == utf8_decode(urlopen_reply.body) IN
        /\ ~ProxyRaised
        /\ CASE urlopen_reply.kind = "HTTPError" ->
                   /\ ~IsBadGateway
                   /\ proxy_response.statusCode = urlopen_reply.status
                   /\ ChallengeRewritten
                   /\ text.ok =>
                         proxy_response.body =
                            str_replace(text.s, gateway_base(GATEWAY_URL),
                                        get_api_url(proxy_event))
              [] urlopen_reply.kind = "URLError" -> IsBadGateway
              [] urlopen_reply.kind = "ok" ->
                   IF ~text.ok THEN IsBadGateway
                   ELSE /\ ~IsBadGateway
                        /\ proxy_response.statusCode = urlopen_reply.status
                        /\ proxy_response.body = text.s
                        /\ ChallengeRewritten
                        /\ urlopen_reply.McpSessionId \notin {NoValue, <<>>} =>
                              proxy_response.McpSessionId = urlopen_reply.McpSessionId

(***************************************************************************)
(* Specifications: one per Lambda, the others idle.                        *)
(***************************************************************************)
\* the interceptor Lambdas before an invocation
InitInterceptors == IntStart /\ CfnIdle /\ OAuthIdle /\ TriggerIdle /\ SetupIdle /\ ProxyIdle
SpecInterceptors == InitInterceptors /\ [][IntNext]_vars
\* the policy-engine custom resource and the generator script before a run
InitPolicy == CfnStart /\ IntIdle /\ OAuthIdle /\ TriggerIdle /\ SetupIdle /\ ProxyIdle
SpecPolicy == InitPolicy /\ [][CfnNext]_vars
\* a Lambda invocation (and the script) runs to completion
SpecPolicyFair == SpecPolicy /\ WF_vars(CfnNext)
\* the OAuth proxy before a flow
InitOAuth == OAuthStart /\ IntIdle /\ CfnIdle /\ TriggerIdle /\ SetupIdle /\ ProxyIdle
SpecOAuth == InitOAuth /\ [][OAuthNext]_vars
\* the enterprise interceptor before an invocation
InitEnterprise == EntStart /\ CfnIdle /\ OAuthIdle /\ TriggerIdle /\ SetupIdle /\ ProxyIdle
SpecEnterprise == InitEnterprise /\ [][ENT_lambda_handler]_vars
\* setup-gateway.py before it runs
InitSetup == SetupStart /\ IntIdle /\ CfnIdle /\ OAuthIdle /\ TriggerIdle /\ ProxyIdle
SpecSetup == InitSetup /\ [][SetupNext]_vars
\* the pre-token-generation trigger before an invocation
InitProxy == ProxyStart /\ IntIdle /\ CfnIdle /\ OAuthIdle /\ TriggerIdle /\ SetupIdle
SpecProxy == InitProxy /\ [][proxy]_vars

InitTrigger == TriggerStart /\ IntIdle /\ CfnIdle /\ OAuthIdle /\ SetupIdle /\ ProxyIdle
SpecTrigger == InitTrigger /\ [][TriggerNext]_vars

====
